---- MODULE Spec2Model ----
(***************************************************************************)
(* A model of maplibre-gl-planetary-computer: the LayerManager (layer      *)
(* registry kept in step with the sources and layers of the host map), the *)
(* render presets and the TiTiler tile-URL builder it uses, the            *)
(* SASTokenManager token cache, the STACClient search cancellation and the  *)
(* search operation of PlanetaryComputerControl.                           *)
(*                                                                         *)
(* Strings of the program are TLA+ strings; JavaScript objects with        *)
(* optional properties are records whose domain holds the properties that  *)
(* are present (an absent key is `undefined').                             *)
(***************************************************************************)
EXTENDS Integers, Sequences, FiniteSets, TLC

VARIABLES
  layers,        \* LayerManager.layers: the Map, as <<key, record>> entries in insertion order
  hostSources,   \* host map: source id -> source specification
  hostLayers,    \* host map: layer id -> [source, visibility, opacity]
  hostCamera,    \* host map: the bounds of the last fitBounds request, if any
  updateCalls,   \* how many updateLayer calls were made
  addCall,       \* the add call that made the registered layer, where a run records it
  cache,         \* SASTokenManager.cache: collection id -> [token, expiry]
  now,           \* the clock read by new Date()
  tokenReqs,     \* token requests in flight: the collection ids asked for, oldest first
  tokenLast,     \* the most recent SASTokenManager step and its outcome
  abortController, \* STACClient.abortController: a request id, or 0 for null
  requests,      \* search requests issued so far: a sequence of [call, owner, params, aborted, status]
  hostThrew,     \* whether a host call has thrown so far
  state,         \* PlanetaryComputerControl._state (the fields search touches)
  events,        \* events emitted by the most recent control step, in order
  searchLast,    \* the most recent search step and its outcome
  layerManager,  \* PlanetaryComputerControl._layerManager is defined
  controlMap,    \* PlanetaryComputerControl._map is defined
  activeLayers,  \* PlanetaryComputerControl._state.activeLayers
  handlers,      \* the React wrapper's handlers are in PlanetaryComputerControl._eventHandlers
  controlLast,   \* the most recent control step and its outcome
  urlLast,       \* the most recent tile-URL request and its result
  utilLast       \* the most recent call of a helper function and its result

lmVars     == <<layers, hostSources, hostLayers, hostCamera, updateCalls, addCall, hostThrew>>
tokenVars  == <<cache, now, tokenReqs, tokenLast>>
searchVars == <<abortController, requests, state, events, searchLast>>
controlVars == <<layerManager, controlMap, activeLayers, handlers, controlLast>>
urlVars    == <<urlLast>>
utilVars   == <<utilLast>>
vars       == <<lmVars, tokenVars, searchVars, controlVars, urlVars, utilVars>>

-----------------------------------------------------------------------------
(* JavaScript objects and strings *)

Has(obj, k) == k \in DOMAIN obj

\* { ...a, ...b }
Spread(a, b) ==
  [k \in (DOMAIN a) \cup (DOMAIN b) |-> IF k \in DOMAIN b THEN b[k] ELSE a[k]]

EmptyObject == <<>>

\* String.prototype.includes
Includes(s, p) ==
  \E i \in 1..(Len(s) - Len(p) + 1) : SubSeq(s, i, i + Len(p) - 1) = p

CharAt(s, i) == SubSeq(s, i, i)

UpperToLower ==
  [c \in {"A","B","C","D","E","F","G","H","I","J","K","L","M",
          "N","O","P","Q","R","S","T","U","V","W","X","Y","Z"} |->
     CASE c = "A" -> "a" [] c = "B" -> "b" [] c = "C" -> "c" [] c = "D" -> "d"
       [] c = "E" -> "e" [] c = "F" -> "f" [] c = "G" -> "g" [] c = "H" -> "h"
       [] c = "I" -> "i" [] c = "J" -> "j" [] c = "K" -> "k" [] c = "L" -> "l"
       [] c = "M" -> "m" [] c = "N" -> "n" [] c = "O" -> "o" [] c = "P" -> "p"
       [] c = "Q" -> "q" [] c = "R" -> "r" [] c = "S" -> "s" [] c = "T" -> "t"
       [] c = "U" -> "u" [] c = "V" -> "v" [] c = "W" -> "w" [] c = "X" -> "x"
       [] c = "Y" -> "y" [] c = "Z" -> "z"]

LowerLetters ==
  {"a","b","c","d","e","f","g","h","i","j","k","l","m",
   "n","o","p","q","r","s","t","u","v","w","x","y","z"}

Digits == {"0","1","2","3","4","5","6","7","8","9"}

\* String.prototype.toLowerCase
RECURSIVE toLowerCase(_)
toLowerCase(s) ==
  IF Len(s) = 0 THEN ""
  ELSE LET c == CharAt(s, 1)
       IN  (IF c \in DOMAIN UpperToLower THEN UpperToLower[c] ELSE c)
             \o toLowerCase(SubSeq(s, 2, Len(s)))

\* s.replace(/[^a-zA-Z0-9-_]/g, '-')
RECURSIVE ReplaceUnsafe(_)
ReplaceUnsafe(s) ==
  IF Len(s) = 0 THEN ""
  ELSE LET c == CharAt(s, 1)
       IN  (IF c \in LowerLetters \cup (DOMAIN UpperToLower) \cup Digits \cup {"-", "_"}
            THEN c ELSE "-")
             \o ReplaceUnsafe(SubSeq(s, 2, Len(s)))

\* the length layer names are cut to: .slice(0, 50)
MaxNameLen == 50

\* s.slice(0, n)
SliceFront(s, n) == IF Len(s) <= n THEN s ELSE SubSeq(s, 1, n)

Sanitize(s) == SliceFront(ReplaceUnsafe(s), MaxNameLen)


\* Array.prototype.find / findIndex: the index of the first element for which
\* P holds, 0 when there is none
FindIndex(seq, P(_)) ==
  IF \E i \in 1..Len(seq) : P(seq[i])
  THEN CHOOSE i \in 1..Len(seq) : P(seq[i]) /\ \A j \in 1..(i - 1) : ~P(seq[j])
  ELSE 0

\* Array.prototype.filter
Filter(seq, P(_)) ==
  LET F[i \in 0..Len(seq)] ==
        IF i = 0 THEN <<>>
        ELSE IF P(seq[i]) THEN Append(F[i - 1], seq[i]) ELSE F[i - 1]
  IN  F[Len(seq)]

\* Array.prototype.join
RECURSIVE Join(_, _)
Join(parts, sep) ==
  IF parts = <<>> THEN ""
  ELSE IF Len(parts) = 1 THEN parts[1]
  ELSE parts[1] \o sep \o Join(Tail(parts), sep)

-----------------------------------------------------------------------------
(* render-presets.ts: the preset registry.  A preset is [name, params]; the *)
(* label and description texts play no part in any operation.              *)

sentinel2L2aPresets == <<
  [name |-> "true-color",  params |-> [assets |-> <<"visual">>]],
  [name |-> "false-color", params |-> [assets |-> <<"B08", "B04", "B03">>, rescale |-> "0,3000"]],
  [name |-> "ndvi",        params |-> [expression |-> "(B08-B04)/(B08+B04)", rescale |-> "-1,1",
                                       colormap_name |-> "rdylgn"]],
  [name |-> "ndwi",        params |-> [expression |-> "(B03-B08)/(B03+B08)", rescale |-> "-1,1",
                                       colormap_name |-> "blues"]],
  [name |-> "swir",        params |-> [assets |-> <<"B12", "B08", "B04">>, rescale |-> "0,3000"]] >>

landsatC2L2Presets == <<
  [name |-> "true-color",  params |-> [assets |-> <<"red", "green", "blue">>, rescale |-> "0,20000"]],
  [name |-> "false-color", params |-> [assets |-> <<"nir08", "red", "green">>, rescale |-> "0,20000"]],
  [name |-> "ndvi",        params |-> [expression |-> "(nir08-red)/(nir08+red)", rescale |-> "-1,1",
                                       colormap_name |-> "rdylgn"]],
  [name |-> "thermal",     params |-> [assets |-> <<"lwir11">>, rescale |-> "290,320",
                                       colormap_name |-> "magma"]] >>

naipPresets == <<
  [name |-> "rgb",  params |-> [assets |-> <<"image">>, asset_bidx |-> << <<"image", "1,2,3">> >>]],
  [name |-> "cir",  params |-> [assets |-> <<"image">>, asset_bidx |-> << <<"image", "4,1,2">> >>]],
  [name |-> "ndvi", params |-> [expression |-> "(image_b4-image_b1)/(image_b4+image_b1)",
                                rescale |-> "-1,1", colormap_name |-> "rdylgn"]] >>

demPresets == <<
  [name |-> "elevation", params |-> [assets |-> <<"data">>, colormap_name |-> "terrain",
                                     rescale |-> "0,4000"]],
  [name |-> "hillshade", params |-> [assets |-> <<"data">>, colormap_name |-> "gray",
                                     rescale |-> "0,255"]] >>

RENDER_CONFIGS == <<
  [collectionId |-> "sentinel-2-l2a", defaultPreset |-> "true-color", presets |-> sentinel2L2aPresets],
  [collectionId |-> "landsat-c2-l2",  defaultPreset |-> "true-color", presets |-> landsatC2L2Presets],
  [collectionId |-> "naip",           defaultPreset |-> "rgb",        presets |-> naipPresets],
  [collectionId |-> "cop-dem-glo-30", defaultPreset |-> "elevation",  presets |-> demPresets],
  [collectionId |-> "cop-dem-glo-90", defaultPreset |-> "elevation",  presets |-> demPresets] >>

\* An optional value (T | undefined) is the sequence <<>> or <<value>>.
Undefined == <<>>
Defined(opt) == opt # <<>>

\* RENDER_CONFIGS.find(...): the entry at the index findIndex gives
ConfigAt(i) == IF i = 0 THEN Undefined ELSE <<RENDER_CONFIGS[i]>>

getRenderConfig(collectionId) ==
  LET IsIt(config) == config.collectionId = collectionId
  IN  ConfigAt(FindIndex(RENDER_CONFIGS, IsIt))

\* config?.presets || []
PresetsOf(config) == IF Defined(config) THEN config[1].presets ELSE <<>>

getPresetsForCollection(collectionId) == PresetsOf(getRenderConfig(collectionId))

\* presets.find(...): the preset at the index findIndex gives
PresetAt(presets, i) == IF i = 0 THEN Undefined ELSE <<presets[i]>>

\* config.presets.find((p) => p.name === name) of a config that may be undefined
PresetNamed(config, name) ==
  LET IsNamed(p) == p.name = name
  IN  IF ~Defined(config) THEN Undefined
      ELSE PresetAt(config[1].presets, FindIndex(config[1].presets, IsNamed))

\* config.presets.find((p) => p.name === config.defaultPreset)
DefaultPresetOf(config) ==
  IF ~Defined(config) THEN Undefined ELSE PresetNamed(config, config[1].defaultPreset)

getDefaultPreset(collectionId) == DefaultPresetOf(getRenderConfig(collectionId))

getPreset(collectionId, presetName) ==
  PresetNamed(getRenderConfig(collectionId), presetName)

-----------------------------------------------------------------------------
(* TiTilerClient: tile URL templates *)

DEFAULT_TILER_URL == "https://planetarycomputer.microsoft.com/api/data/v1"

\* characters that application/x-www-form-urlencoded leaves as they are
FormSafe == LowerLetters \cup (DOMAIN UpperToLower) \cup Digits \cup {"*", "-", ".", "_"}

\* characters that encodeURIComponent leaves as they are
UriSafe == LowerLetters \cup (DOMAIN UpperToLower) \cup Digits
             \cup {"-", "_", ".", "!", "~", "*", "'", "(", ")"}

PercentCode(c) ==
  CASE c = " " -> "%20" [] c = "!" -> "%21" [] c = "\"" -> "%22" [] c = "#" -> "%23"
    [] c = "$" -> "%24" [] c = "%" -> "%25" [] c = "&" -> "%26" [] c = "'" -> "%27"
    [] c = "(" -> "%28" [] c = ")" -> "%29" [] c = "*" -> "%2A" [] c = "+" -> "%2B"
    [] c = "," -> "%2C" [] c = "/" -> "%2F" [] c = ":" -> "%3A" [] c = ";" -> "%3B"
    [] c = "<" -> "%3C" [] c = "=" -> "%3D" [] c = ">" -> "%3E" [] c = "?" -> "%3F"
    [] c = "@" -> "%40" [] c = "[" -> "%5B" [] c = "]" -> "%5D" [] c = "^" -> "%5E"
    [] c = "{" -> "%7B" [] c = "|" -> "%7C" [] c = "}" -> "%7D"
    [] c = "~" -> "%7E"

RECURSIVE encodeURIComponent(_)
encodeURIComponent(s) ==
  IF Len(s) = 0 THEN ""
  ELSE LET c == CharAt(s, 1)
       IN  (IF c \in UriSafe THEN c ELSE PercentCode(c))
             \o encodeURIComponent(SubSeq(s, 2, Len(s)))

RECURSIVE FormEncode(_)
FormEncode(s) ==
  IF Len(s) = 0 THEN ""
  ELSE LET c == CharAt(s, 1)
       IN  (IF c \in FormSafe THEN c ELSE IF c = " " THEN "+" ELSE PercentCode(c))
             \o FormEncode(SubSeq(s, 2, Len(s)))

\* URLSearchParams.prototype.set on a list of <<name, value>> entries
ParamsSet(entries, name, value) ==
  LET IsName(e) == e[1] = name
      NotName(e) == e[1] # name
      i == FindIndex(entries, IsName)
  IN  IF i = 0 THEN Append(entries, <<name, value>>)
      ELSE SubSeq(entries, 1, i - 1) \o << <<name, value>> >>
             \o Filter(SubSeq(entries, i + 1, Len(entries)), NotName)

\* URLSearchParams.prototype.append
ParamsAppend(entries, name, value) == Append(entries, <<name, value>>)

RECURSIVE ParamsAppendAll(_, _, _)
ParamsAppendAll(entries, name, values) ==
  IF values = <<>> THEN entries
  ELSE ParamsAppendAll(ParamsAppend(entries, name, Head(values)), name, Tail(values))

\* URLSearchParams.prototype.toString
RECURSIVE ParamsToString(_)
ParamsToString(entries) ==
  IF entries = <<>> THEN ""
  ELSE FormEncode(entries[1][1]) \o "=" \o FormEncode(entries[1][2])
         \o (IF Len(entries) = 1 THEN "" ELSE "&" \o ParamsToString(Tail(entries)))

RECURSIVE JoinInts(_)
JoinInts(ns) ==
  IF ns = <<>> THEN ""
  ELSE ToString(ns[1]) \o (IF Len(ns) = 1 THEN "" ELSE "," \o JoinInts(Tail(ns)))

\* JSON.stringify of a colormap, given as <<value, <<r, g, b, a>>>> entries
RECURSIVE ColormapMembers(_)
ColormapMembers(cm) ==
  IF cm = <<>> THEN ""
  ELSE "\"" \o ToString(cm[1][1]) \o "\":[" \o JoinInts(cm[1][2]) \o "]"
         \o (IF Len(cm) = 1 THEN "" ELSE "," \o ColormapMembers(Tail(cm)))

JSONStringifyColormap(cm) == "{" \o ColormapMembers(cm) \o "}"

StringOfBoolean(b) == IF b THEN "true" ELSE "false"

RECURSIVE AppendBidx(_, _)
AppendBidx(entries, bidx) ==
  IF bidx = <<>> THEN entries
  ELSE AppendBidx(ParamsAppend(entries, "asset_bidx", bidx[1][1] \o "|" \o bidx[1][2]),
                  Tail(bidx))

\* if (present) searchParams.set(name, value)
SetIf(entries, present, name, value) ==
  IF present THEN ParamsSet(entries, name, value) ELSE entries

\* WithAssets with searchParams.set in the place of append: every asset
\* replaces the one before it
WithAssetsLastOnly(entries, params) ==
  IF Has(params, "assets") /\ Len(params.assets) > 0
  THEN ParamsSet(entries, "assets", params.assets[Len(params.assets)]) ELSE entries

\* if (params.assets?.length) params.assets.forEach((asset) => searchParams.append('assets', asset))
WithAssets(entries, params) ==
  IF Has(params, "assets") /\ Len(params.assets) > 0
  THEN ParamsAppendAll(entries, "assets", params.assets) ELSE entries

\* if (params.asset_bidx) Object.entries(params.asset_bidx).forEach(...)
WithAssetBidx(entries, params) ==
  IF Has(params, "asset_bidx") THEN AppendBidx(entries, params.asset_bidx) ELSE entries

\* the entries buildQueryString puts into its URLSearchParams, statement by
\* statement; a string or a number is set when it is not empty or zero,
\* nodata and return_mask when they are defined
QueryEntries(params) ==
  WithAssetBidx(
    SetIf(SetIf(SetIf(SetIf(SetIf(SetIf(SetIf(SetIf(
      WithAssets(<<>>, params),
      Has(params, "expression") /\ params.expression # "",
        "expression", params.expression),
      Has(params, "rescale") /\ params.rescale # "",
        "rescale", params.rescale),
      Has(params, "colormap_name") /\ params.colormap_name # "",
        "colormap_name", params.colormap_name),
      Has(params, "colormap"),
        "colormap", JSONStringifyColormap(params.colormap)),
      Has(params, "nodata"),
        "nodata", ToString(params.nodata)),
      Has(params, "resampling") /\ params.resampling # "",
        "resampling", params.resampling),
      Has(params, "return_mask"),
        "return_mask", StringOfBoolean(params.return_mask)),
      Has(params, "tile_size") /\ params.tile_size # 0,
        "tile_size", ToString(params.tile_size)),
    params)

buildQueryString(params) == ParamsToString(QueryEntries(params))

\* the template literal of getItemTileUrl, given queryString
ItemTileUrlOf(collectionId, itemId, queryString, query) ==
  DEFAULT_TILER_URL \o "/item/tiles/WebMercatorQuad/{z}/{x}/{y}@1x?collection="
    \o encodeURIComponent(collectionId) \o "&item=" \o encodeURIComponent(itemId)
    \o (IF query # "" THEN "&" \o queryString ELSE "")

QueryOf(queryString) == IF queryString # "" THEN "?" \o queryString ELSE ""

getItemTileUrl(collectionId, itemId, params) ==
  ItemTileUrlOf(collectionId, itemId, buildQueryString(params),
                QueryOf(buildQueryString(params)))

IsTruthyString(p) == p # ""

\* the mosaic URL as LayerManager requests it: without searchParams
getCollectionTileUrl(collectionId, params) ==
  DEFAULT_TILER_URL \o "/mosaic/tiles/WebMercatorQuad/{z}/{x}/{y}@1x?"
    \o Join(Filter(<<"collection=" \o encodeURIComponent(collectionId),
                     buildQueryString(params), "">>, IsTruthyString), "&")

-----------------------------------------------------------------------------
(* The host map (MapLibre), as LayerManager uses it.  An operation works   *)
(* on a record m = [layers, sources, hlayers, camera, log, thrown, fail]:   *)
(* the registry, the host's sources and layers, the bounds the host was    *)
(* last asked to fit, the host calls made so far,                          *)
(* whether an exception is propagating, and the host method that is made   *)
(* to throw ("none" for the trusted host).  Every host call is logged; a   *)
(* call made while an exception propagates does not happen.                *)

\* 'raster-opacity': 1, in percent
OpacityOne == 100

Log(m, call) == [m EXCEPT !.log = Append(@, call)]

Throw(m) == [m EXCEPT !.thrown = TRUE]

Without(f, k) == [x \in (DOMAIN f) \ {k} |-> f[x]]

With(f, k, v) == [x \in (DOMAIN f) \cup {k} |-> IF x = k THEN v ELSE f[x]]

\* map.addSource(id, source): throws when the id is taken
HostAddSource(m, id, source) ==
  IF m.thrown THEN m
  ELSE LET m1 == Log(m, <<"addSource", id>>)
       IN  IF m.fail = "addSource" \/ id \in DOMAIN m.sources THEN Throw(m1)
           ELSE [m1 EXCEPT !.sources = With(@, id, source)]

\* map.addLayer(layer): an id that is taken is reported by an error event and
\* the call changes nothing
HostAddLayer(m, id, source, visibility, opacity) ==
  IF m.thrown THEN m
  ELSE LET m1 == Log(m, <<"addLayer", id>>)
       IN  IF m.fail = "addLayer" THEN Throw(m1)
           ELSE IF id \in DOMAIN m.hlayers THEN m1
           ELSE [m1 EXCEPT !.hlayers =
                   With(@, id, [source |-> source, visibility |-> visibility,
                                opacity |-> opacity])]

\* map.getLayer(id) / map.getSource(id), as the truth value the code tests
HostHasLayer(m, id) == id \in DOMAIN m.hlayers
HostHasSource(m, id) == id \in DOMAIN m.sources

\* map.removeLayer(id): a missing layer is reported by an error event
HostRemoveLayer(m, id) ==
  IF m.thrown THEN m
  ELSE LET m1 == Log(m, <<"removeLayer", id>>)
       IN  IF m.fail = "removeLayer" THEN Throw(m1)
           ELSE [m1 EXCEPT !.hlayers = Without(@, id)]

\* map.removeSource(id): throws when there is no such source; a source that a
\* layer still uses is reported by an error event and stays
HostRemoveSource(m, id) ==
  IF m.thrown THEN m
  ELSE LET m1 == Log(m, <<"removeSource", id>>)
       IN  IF m.fail = "removeSource" \/ id \notin DOMAIN m.sources THEN Throw(m1)
           ELSE IF \E l \in DOMAIN m.hlayers : m.hlayers[l].source = id THEN m1
           ELSE [m1 EXCEPT !.sources = Without(@, id)]

\* map.setLayoutProperty(id, 'visibility', value)
HostSetLayoutProperty(m, id, value) ==
  IF m.thrown THEN m
  ELSE LET m1 == Log(m, <<"setLayoutProperty", id>>)
       IN  IF id \in DOMAIN m.hlayers
           THEN [m1 EXCEPT !.hlayers[id].visibility = value]
           ELSE m1

\* map.setPaintProperty(id, 'raster-opacity', value)
HostSetPaintProperty(m, id, value) ==
  IF m.thrown THEN m
  ELSE LET m1 == Log(m, <<"setPaintProperty", id>>)
       IN  IF id \in DOMAIN m.hlayers
           THEN [m1 EXCEPT !.hlayers[id].opacity = value]
           ELSE m1

\* map.getLayoutProperty(id, 'visibility'): "undefined" when the layer has no
\* layout visibility or does not exist
HostGetLayoutProperty(m, id) ==
  IF id \in DOMAIN m.hlayers THEN m.hlayers[id].visibility ELSE "undefined"

\* map.getPaintProperty(id, 'raster-opacity'): an optional number
HostGetPaintProperty(m, id) ==
  IF id \in DOMAIN m.hlayers THEN <<m.hlayers[id].opacity>> ELSE Undefined

\* map.fitBounds(bounds, { padding: 50 })
HostFitBounds(m, bounds) ==
  IF m.thrown THEN m
  ELSE [Log(m, <<"fitBounds", JoinInts(bounds)>>) EXCEPT !.camera = <<bounds>>]

-----------------------------------------------------------------------------
(* The Map<string, ActiveLayer> of LayerManager: <<key, value>> entries in *)
(* insertion order.                                                        *)

MapKeys(L) == [i \in 1..Len(L) |-> L[i][1]]

MapHas(L, k) == \E i \in 1..Len(L) : L[i][1] = k

MapGet(L, k) == L[CHOOSE i \in 1..Len(L) : L[i][1] = k][2]

\* Map.prototype.set: a present key keeps its place
MapSet(L, k, v) ==
  IF MapHas(L, k)
  THEN [i \in 1..Len(L) |-> IF L[i][1] = k THEN <<k, v>> ELSE L[i]]
  ELSE Append(L, <<k, v>>)

MapDelete(L, k) ==
  LET Other(e) == e[1] # k IN Filter(L, Other)

-----------------------------------------------------------------------------
(* LayerManager *)

PreferredAssets == <<"visual", "data", "image", "cog_default">>

ExcludePatterns == <<"thumbnail", "overview", "metadata", "tilejson", "rendered_preview">>

\* asset.type || ''
TypeOf(asset) == IF Has(asset, "type") THEN asset.type ELSE ""

\* obj[key] of a Record<string, STACAsset> given as [key, asset] entries
HasKey(entries, key) == \E i \in 1..Len(entries) : entries[i].key = key

\* type.includes('tiff') || type.includes('geotiff') || type.includes('cog')
IsCog(e) ==
  \/ Includes(TypeOf(e.asset), "tiff")
  \/ Includes(TypeOf(e.asset), "geotiff")
  \/ Includes(TypeOf(e.asset), "cog")

\* IsData that matches the excluded names case-sensitively
IsDataCaseSensitive(e) ==
  ~\E j \in 1..Len(ExcludePatterns) : Includes(e.key, ExcludePatterns[j])

\* !excludePatterns.some((p) => key.toLowerCase().includes(p))
IsData(e) ==
  ~\E j \in 1..Len(ExcludePatterns) : Includes(toLowerCase(e.key), ExcludePatterns[j])

\* DefaultAssetAt that falls back to the first key of the asset map, excluded
\* or not
DefaultAssetAtAnyKey(entries, p, c, d) ==
  IF p # 0 THEN <<PreferredAssets[p]>>
  ELSE IF c # 0 THEN <<entries[c].key>>
  ELSE IF Len(entries) > 0 THEN <<entries[1].key>>
  ELSE <<>>

\* the three returns of getDefaultAssets, given the index of the first
\* preferred name that is a key (p), of the first asset of a COG type (c) and
\* of the first key that is not excluded (d); 0 when there is none
DefaultAssetAt(entries, p, c, d) ==
  IF p # 0 THEN <<PreferredAssets[p]>>
  ELSE IF c # 0 THEN <<entries[c].key>>
  ELSE IF d # 0 THEN <<entries[d].key>>
  ELSE <<>>

DefaultAssetsOf(entries) ==
  LET Present(name) == HasKey(entries, name)
  IN  DefaultAssetAt(entries, FindIndex(PreferredAssets, Present),
                     FindIndex(entries, IsCog), FindIndex(entries, IsData))

getDefaultAssets(item) == DefaultAssetsOf(item.assets)

\* collection.item_assets || {}
ItemAssetsOf(collection) ==
  IF Has(collection, "item_assets") THEN collection.item_assets ELSE <<>>

getDefaultCollectionAssets(collection) == DefaultAssetsOf(ItemAssetsOf(collection))

\* bbox && bbox.length >= 4 ? [bbox[0], bbox[1], bbox[2], bbox[3]] : undefined
FourOf(bbox) ==
  IF Defined(bbox) /\ Len(bbox[1]) >= 4
  THEN << <<bbox[1][1], bbox[1][2], bbox[1][3], bbox[1][4]>> >>
  ELSE Undefined

\* bbox?.[0]
FirstBox(boxes) == IF Len(boxes) > 0 THEN <<boxes[1]>> ELSE Undefined

\* collection.extent?.spatial?.bbox?.[0], cut to four numbers
getCollectionBounds(collection) == FourOf(FirstBox(collection.extent.spatial.bbox))

\* the attribution every source gets
Attribution == "Microsoft Planetary Computer"

\* tileSize: 256
TileSize == 256

RasterSource(tileUrl, bounds) ==
  [type |-> "raster", tiles |-> <<tileUrl>>, tileSize |-> TileSize,
   bounds |-> bounds, attribution |-> Attribution]

\* item.bbox, which an item may lack
BboxOf(item) == IF Has(item, "bbox") THEN <<item.bbox>> ELSE Undefined

\* item.collection || ''
CollectionIdOf(item) == IF Has(item, "collection") THEN item.collection ELSE ""

\* options?.renderParams || {}, replaced by the default preset's parameters
\* when one was looked up and found
ParamsGiven(options, defaultPreset) ==
  IF Defined(defaultPreset) THEN defaultPreset[1].params
  ELSE IF Has(options, "renderParams") THEN options.renderParams
  ELSE EmptyObject

\* options?.presetName, replaced by the default preset's name
PresetNameGiven(options, defaultPreset) ==
  IF Defined(defaultPreset) THEN <<defaultPreset[1].name>>
  ELSE IF Has(options, "presetName") THEN <<options.presetName>>
  ELSE Undefined

\* ResolveAssets that takes the assets of the parameter bundle before
\* options.assets
ResolveAssetsBundleFirst(options, renderParams, heuristic) ==
  IF Has(renderParams, "assets") THEN renderParams.assets
  ELSE IF Has(options, "assets") THEN options.assets
  ELSE heuristic

\* options?.assets || renderParams.assets || this.getDefaultAssets(item)
ResolveAssets(options, renderParams, heuristic) ==
  IF Has(options, "assets") THEN options.assets
  ELSE IF Has(renderParams, "assets") THEN renderParams.assets
  ELSE heuristic

\* renderParams = { ...renderParams, assets }
ResolveFrom(options, renderParams, presetName, heuristic) ==
  [assets |-> ResolveAssets(options, renderParams, heuristic),
   renderParams |-> Spread(renderParams,
                           [assets |-> ResolveAssets(options, renderParams, heuristic)]),
   presetName |-> presetName]

ResolveWith(options, defaultPreset, heuristic) ==
  ResolveFrom(options, ParamsGiven(options, defaultPreset),
              PresetNameGiven(options, defaultPreset), heuristic)

\* the default preset addItemLayer looks up, lines 53-59
ItemDefaultPreset(item, options) ==
  IF ~Has(options, "renderParams") /\ ~Has(options, "assets") /\ CollectionIdOf(item) # ""
  THEN getDefaultPreset(CollectionIdOf(item)) ELSE Undefined

\* addItemLayer, lines 47-63: the preset name, the asset list and the
\* parameter bundle of the new layer
ResolveItemParams(item, options) ==
  ResolveWith(options, ItemDefaultPreset(item, options), getDefaultAssets(item))

\* the default preset addCollectionLayer looks up, lines 129-135
CollectionDefaultPreset(collection, options) ==
  IF ~Has(options, "renderParams") /\ ~Has(options, "assets")
  THEN getDefaultPreset(collection.id) ELSE Undefined

\* addCollectionLayer, lines 125-140
ResolveCollectionParams(collection, options) ==
  ResolveWith(options, CollectionDefaultPreset(collection, options),
              getDefaultCollectionAssets(collection))

\* an object literal's optional property: absent when the value is undefined
OptionalField(name, opt) == IF Defined(opt) THEN [k \in {name} |-> opt[1]] ELSE EmptyObject

ItemLayerId(item, suffix) == Sanitize(item.id) \o "-" \o suffix

\* collection.title || collection.id
CollectionLayerId(collection, suffix) ==
  Sanitize(IF Has(collection, "title") /\ collection.title # ""
           THEN collection.title ELSE collection.id) \o "-" \o suffix

SourceIdOf(layerId) == layerId \o "-source"

\* the object literal of addItemLayer, lines 87-98
ItemRecordOf(layerId, item, r) ==
  Spread([id |-> layerId, type |-> "item", sourceId |-> SourceIdOf(layerId),
          item |-> item, visible |-> TRUE, opacity |-> OpacityOne,
          assets |-> r.assets, renderParams |-> r.renderParams],
         OptionalField("presetName", r.presetName))

\* the ActiveLayer that addItemLayer builds and returns; suffix is
\* generateId().slice(-6)
ItemLayerRecord(item, options, suffix) ==
  ItemRecordOf(ItemLayerId(item, suffix), item, ResolveItemParams(item, options))

\* this.layers.set(layerId, layer), reached when no host call threw
Registered(m, layer) ==
  IF m.thrown THEN m ELSE [m EXCEPT !.layers = MapSet(@, layer.id, layer)]

\* map.addSource, map.addLayer and this.layers.set of a new layer
AddToHost(m, layer, source) ==
  Registered(HostAddLayer(HostAddSource(m, layer.sourceId, source),
                          layer.id, layer.sourceId, "undefined", OpacityOne),
             layer)

AddItemRecord(m, item, layer) ==
  AddToHost(m, layer,
            RasterSource(getItemTileUrl(CollectionIdOf(item), item.id, layer.renderParams),
                         BboxOf(item)))

addItemLayer(m, item, options, suffix) ==
  AddItemRecord(m, item, ItemLayerRecord(item, options, suffix))

\* the object literal of addCollectionLayer, lines 167-177
CollectionRecordOf(layerId, collection, r) ==
  Spread([id |-> layerId, type |-> "collection", sourceId |-> SourceIdOf(layerId),
          collection |-> collection, visible |-> TRUE, opacity |-> OpacityOne,
          assets |-> r.assets, renderParams |-> r.renderParams],
         OptionalField("presetName", r.presetName))

CollectionLayerRecord(collection, options, suffix) ==
  CollectionRecordOf(CollectionLayerId(collection, suffix), collection,
                     ResolveCollectionParams(collection, options))

\* options?.bbox || this.getCollectionBounds(collection)
BoundsGiven(collection, options) ==
  IF Has(options, "bbox") THEN <<options.bbox>> ELSE getCollectionBounds(collection)

AddCollectionRecord(m, collection, options, layer) ==
  AddToHost(m, layer,
            RasterSource(getCollectionTileUrl(collection.id, layer.renderParams),
                         BoundsGiven(collection, options)))

addCollectionLayer(m, collection, options, suffix) ==
  AddCollectionRecord(m, collection, options,
                      CollectionLayerRecord(collection, options, suffix))

\* if (this.map.getLayer(layerId)) this.map.removeLayer(layerId)
RemoveHostLayer(m, layerId) ==
  IF HostHasLayer(m, layerId) THEN HostRemoveLayer(m, layerId) ELSE m

\* this.map.getSource(layer.sourceId), reached when removeLayer did not throw
LookedUpSource(m, sourceId) ==
  IF m.thrown THEN m ELSE Log(m, <<"getSource", sourceId>>)

\* if (this.map.getSource(layer.sourceId)) this.map.removeSource(layer.sourceId)
RemoveHostSource(m, sourceId) ==
  IF HostHasSource(m, sourceId) THEN HostRemoveSource(m, sourceId) ELSE m

\* this.layers.delete(layerId), reached when no host call threw
Unregistered(m, layerId) ==
  IF m.thrown THEN m ELSE [m EXCEPT !.layers = MapDelete(@, layerId)]

\* removeLayer without the lookup of the record: it asks the host for the
\* layer whatever the id
removeLayerUnguarded(m, layerId) ==
  Unregistered(RemoveHostLayer(Log(m, <<"getLayer", layerId>>), layerId), layerId)

removeLayer(m, layerId) ==
  IF m.thrown \/ ~MapHas(m.layers, layerId) THEN m
  ELSE Unregistered(
         RemoveHostSource(
           LookedUpSource(RemoveHostLayer(Log(m, <<"getLayer", layerId>>), layerId),
                          MapGet(m.layers, layerId).sourceId),
           MapGet(m.layers, layerId).sourceId),
         layerId)

\* OpacityOr1 that gives the recreated layer full opacity whatever was read
OpacityAlways1(opacity) == OpacityOne

\* (opacity as number) ?? 1
OpacityOr1(opacity) == IF Defined(opacity) THEN opacity[1] ELSE OpacityOne

IsItemLayer(layer) == layer.type = "item" /\ Has(layer, "item")

IsCollectionLayer(layer) == layer.type = "collection" /\ Has(layer, "collection")

\* updates.renderParams, which spreads as nothing when absent
RenderParamsOf(updates) ==
  IF Has(updates, "renderParams") THEN updates.renderParams ELSE EmptyObject

\* updates.assets || layer.assets
NewAssets(layer, updates) ==
  IF Has(updates, "assets") THEN updates.assets ELSE layer.assets

\* { ...newParams, assets: newAssets }
NewParams(layer, updates) ==
  Spread(Spread(layer.renderParams, RenderParamsOf(updates)),
         [assets |-> NewAssets(layer, updates)])

\* the tile URL of updateLayerSource, lines 314-324
NewTileUrl(layer, params) ==
  IF IsItemLayer(layer)
  THEN getItemTileUrl(CollectionIdOf(layer.item), layer.item.id, params)
  ELSE getCollectionTileUrl(layer.collection.id, params)

\* LayerBounds that knows the bounds of items only
LayerBoundsOfItems(layer) ==
  IF Has(layer, "item") /\ Has(layer.item, "bbox") THEN <<layer.item.bbox>>
  ELSE Undefined

\* layer.item?.bbox || (layer.collection ? this.getCollectionBounds(...) : undefined)
LayerBounds(layer) ==
  IF Has(layer, "item") /\ Has(layer.item, "bbox") THEN <<layer.item.bbox>>
  ELSE IF Has(layer, "collection") THEN getCollectionBounds(layer.collection)
  ELSE Undefined

\* updateLayerSource, lines 330-360: the host calls, given the layout
\* visibility and the paint opacity read first
Recreate(m, layerId, layer, tileUrl, visibility, opacity) ==
  HostAddLayer(
    HostAddSource(
      HostRemoveSource(
        HostRemoveLayer(
          Log(Log(m, <<"getLayoutProperty", layerId>>), <<"getPaintProperty", layerId>>),
          layerId),
        layer.sourceId),
      layer.sourceId, RasterSource(tileUrl, LayerBounds(layer))),
    layerId, layer.sourceId, visibility, OpacityOr1(opacity))

RecreateSource(m, layerId, layer, updates) ==
  IF ~IsItemLayer(layer) /\ ~IsCollectionLayer(layer) THEN m
  ELSE Recreate(m, layerId, layer, NewTileUrl(layer, NewParams(layer, updates)),
                HostGetLayoutProperty(m, layerId), HostGetPaintProperty(m, layerId))

updateLayerSource(m, layerId, updates) ==
  IF m.thrown \/ ~MapHas(m.layers, layerId) THEN m
  ELSE RecreateSource(m, layerId, MapGet(m.layers, layerId), updates)

\* if (updates.visible !== undefined) this.map.setLayoutProperty(...)
VisibilityApplied(m, layerId, updates) ==
  IF Has(updates, "visible")
  THEN HostSetLayoutProperty(m, layerId, IF updates.visible THEN "visible" ELSE "none")
  ELSE m

\* if (updates.opacity !== undefined) this.map.setPaintProperty(...)
OpacityApplied(m, layerId, updates) ==
  IF Has(updates, "opacity") THEN HostSetPaintProperty(m, layerId, updates.opacity) ELSE m

\* SourceApplied that recreates the source on every update
SourceAppliedAlways(m, layerId, updates) == updateLayerSource(m, layerId, updates)

\* if (updates.renderParams || updates.assets) this.updateLayerSource(layerId, updates)
SourceApplied(m, layerId, updates) ==
  IF Has(updates, "renderParams") \/ Has(updates, "assets")
  THEN updateLayerSource(m, layerId, updates)
  ELSE m

\* this.layers.set(layerId, { ...layer, ...updates }), reached when no host
\* call threw
Merged(m, layerId, layer, updates) ==
  IF m.thrown THEN m
  ELSE [m EXCEPT !.layers = MapSet(@, layerId, Spread(layer, updates))]

updateLayer(m, layerId, updates) ==
  IF m.thrown \/ ~MapHas(m.layers, layerId) THEN m
  ELSE Merged(SourceApplied(OpacityApplied(VisibilityApplied(m, layerId, updates),
                                           layerId, updates),
                            layerId, updates),
              layerId, MapGet(m.layers, layerId), updates)

\* for (const layerId of this.layers.keys()) this.removeLayer(layerId): the
\* iterator visits the entries that are still in the Map, in order
RECURSIVE RemoveFrom(_, _)
RemoveFrom(m, keys) ==
  IF keys = <<>> \/ m.thrown THEN m
  ELSE RemoveFrom(removeLayer(m, Head(keys)), Tail(keys))

removeAllLayers(m) == RemoveFrom(m, MapKeys(m.layers))

\* if (bounds) this.map.fitBounds(...)
FitTo(m, bounds) == IF Defined(bounds) THEN HostFitBounds(m, bounds[1]) ELSE m

zoomToLayer(m, layerId) ==
  IF m.thrown \/ ~MapHas(m.layers, layerId) THEN m
  ELSE FitTo(m, LayerBounds(MapGet(m.layers, layerId)))

-----------------------------------------------------------------------------
(* The catalog entries the operations are exercised with *)

GeoTiff == "image/tiff; application=geotiff; profile=cloud-optimized"

ItemS2 ==
  [id |-> "S2B.T10SEG", collection |-> "sentinel-2-l2a", bbox |-> <<-123, 37, -122, 38>>,
   assets |-> << [key |-> "thumbnail", asset |-> [href |-> "s2/preview.png", type |-> "image/png"]],
                 [key |-> "visual",    asset |-> [href |-> "s2/TCI.tif", type |-> GeoTiff]],
                 [key |-> "B04",       asset |-> [href |-> "s2/B04.tif", type |-> GeoTiff]] >>]

\* an item of a collection without presets; its id sanitizes to that of ItemS2
ItemLulc ==
  [id |-> "S2B T10SEG", collection |-> "io-lulc", bbox |-> <<10, 40, 11, 41>>,
   assets |-> << [key |-> "thumbnail", asset |-> [href |-> "lulc/thumb.png", type |-> "image/png"]],
                 [key |-> "data",      asset |-> [href |-> "lulc/data.tif",
                                                  type |-> "image/tiff; application=geotiff"]] >>]

CollectionNaip ==
  [id |-> "naip", title |-> "NAIP: National Agriculture Imagery",
   extent |-> [spatial |-> [bbox |-> << <<-160, 17, -67, 50>> >>]],
   item_assets |-> << [key |-> "image", asset |-> [href |-> "", type |-> GeoTiff]] >>]

Items == {ItemS2}
Collections == {CollectionNaip}

\* values of generateId().slice(-6): six characters, or fewer random
\* characters behind a part of the timestamp
Suffixes == {"k3f9q2", "x7-a1b"}

NoOptions == EmptyObject

ItemOptions == { NoOptions }

CollectionOptions ==
  { NoOptions, [bbox |-> <<-125, 32, -114, 42>>] }

\* a source id for updates that carry one: that of a collection layer
OtherSourceId == SourceIdOf(CollectionLayerId(CollectionNaip, "k3f9q2"))

\* updateLayer's updates: a Partial<ActiveLayer>
Updates ==
  { [visible |-> FALSE],
    [opacity |-> 50],
    [assets |-> <<"B04">>, visible |-> TRUE],
    [renderParams |-> [rescale |-> "0,100"], opacity |-> 0],
    [sourceId |-> OtherSourceId],
    [type |-> "collection"] }

\* the layer ids the operations are called with: the registered keys, and
\* one that never is registered
RegisteredIds == { layers[i][1] : i \in 1..Len(layers) }
LayerIds == RegisteredIds \cup { "no-such-layer" }

\* how many layers are registered at a time
MaxLayers == 2

\* how many updateLayer calls a run makes
MaxUpdates == 2

-----------------------------------------------------------------------------
(* The LayerManager on a host map *)

Manager(fail) ==
  [layers |-> layers, sources |-> hostSources, hlayers |-> hostLayers,
   camera |-> hostCamera, log |-> <<>>, thrown |-> FALSE, fail |-> fail]

\* an operation took the manager and its host to m
Becomes(m) ==
  /\ layers' = m.layers
  /\ hostSources' = m.sources
  /\ hostLayers' = m.hlayers
  /\ hostCamera' = m.camera
  /\ hostThrew' = (hostThrew \/ m.thrown)
  /\ UNCHANGED <<tokenVars, searchVars, controlVars, urlVars, utilVars>>

NoCall == [op |-> "none", options |-> EmptyObject]

InitLayers ==
  /\ layers = <<>>
  /\ hostSources = <<>>
  /\ hostLayers = <<>>
  /\ hostCamera = Undefined
  /\ hostThrew = FALSE
  /\ updateCalls = 0
  /\ addCall = NoCall

AddItemLayer ==
  \E item \in Items, options \in ItemOptions, suffix \in Suffixes :
    /\ Len(layers) < MaxLayers
    /\ Becomes(addItemLayer(Manager("none"), item, options, suffix))
    /\ UNCHANGED <<updateCalls, addCall>>

AddCollectionLayer ==
  \E collection \in Collections, options \in CollectionOptions, suffix \in Suffixes :
    /\ Len(layers) < MaxLayers
    /\ Becomes(addCollectionLayer(Manager("none"), collection, options, suffix))
    /\ UNCHANGED <<updateCalls, addCall>>

RemoveLayer ==
  \E layerId \in LayerIds :
    /\ Becomes(removeLayer(Manager("none"), layerId))
    /\ UNCHANGED <<updateCalls, addCall>>

UpdateLayer ==
  \E layerId \in RegisteredIds, updates \in Updates :
    /\ updateCalls < MaxUpdates
    /\ Becomes(updateLayer(Manager("none"), layerId, updates))
    /\ updateCalls' = updateCalls + 1
    /\ UNCHANGED addCall

RemoveAllLayers ==
  /\ Becomes(removeAllLayers(Manager("none")))
  /\ UNCHANGED <<updateCalls, addCall>>

Next ==
  \/ AddItemLayer
  \/ AddCollectionLayer
  \/ RemoveLayer
  \/ UpdateLayer
  \/ RemoveAllLayers

-----------------------------------------------------------------------------
(* SASTokenManager.  Time is counted in minutes; expiry is an absolute     *)
(* time.  getToken runs up to its await, and the response to its request   *)
(* is a later step; requests of several calls can be in flight.            *)

\* bufferMs, the constructor's default of 5 minutes
BufferMs == 5

\* IsFresh with the boundary on the other side: an entry whose expiry is
\* exactly the buffer away is still served
IsFreshInclusive(c, t, collectionId) ==
  /\ collectionId \in DOMAIN c
  /\ c[collectionId].expiry - t >= BufferMs

\* cached && cached.expiry.getTime() - now.getTime() > this.bufferMs
IsFresh(c, t, collectionId) ==
  /\ collectionId \in DOMAIN c
  /\ c[collectionId].expiry - t > BufferMs

\* getToken up to the await: the cached token, or a request
getToken(c, t, collectionId) ==
  IF IsFresh(c, t, collectionId)
  THEN [requested |-> FALSE, token |-> <<c[collectionId].token>>]
  ELSE [requested |-> TRUE, token |-> Undefined]

\* CacheSet that keeps the entry the cache already has
CacheSetIfAbsent(c, collectionId, token, expiry) ==
  IF collectionId \in DOMAIN c THEN c
  ELSE With(c, collectionId, [token |-> token, expiry |-> expiry])

\* this.cache.set(collectionId, { token, expiry })
CacheSet(c, collectionId, token, expiry) ==
  With(c, collectionId, [token |-> token, expiry |-> expiry])

hasValidToken(c, t, collectionId) ==
  IF collectionId \notin DOMAIN c THEN FALSE
  ELSE c[collectionId].expiry - t > BufferMs

\* clearToken that empties the whole cache
clearTokenAll(c, collectionId) == <<>>

\* this.cache.delete(collectionId)
clearToken(c, collectionId) == Without(c, collectionId)

\* this.cache.clear()
clearCache(c) == <<>>

\* url.includes('?') ? '&' : '?'
Separator(url) == IF Includes(url, "?") THEN "&" ELSE "?"

\* `${url}${separator}${token}`
SignedUrl(url, token) == url \o Separator(url) \o token

\* signUrl around the getToken it awaits: the signed URL when the token came
\* from the cache, a pending request otherwise
SignWith(url, r) ==
  [requested |-> r.requested,
   url |-> IF r.requested THEN Undefined ELSE <<SignedUrl(url, r.token[1])>>,
   error |-> Undefined]

signUrl(c, t, url, collectionId) == SignWith(url, getToken(c, t, collectionId))

\* item.assets[assetKey] is defined
HasAsset(item, assetKey) ==
  \E i \in 1..Len(item.assets) : item.assets[i].key = assetKey

\* item.assets[assetKey]
AssetOf(item, assetKey) ==
  item.assets[CHOOSE i \in 1..Len(item.assets) : item.assets[i].key = assetKey].asset

\* `Asset '${assetKey}' not found`
AssetNotFound(assetKey) == "Asset '" \o assetKey \o "' not found"

\* getDownloadUrl that signs without looking the asset up first
getDownloadUrlUnchecked(c, t, item, assetKey) ==
  signUrl(c, t, IF HasAsset(item, assetKey) THEN AssetOf(item, assetKey).href ELSE "",
          item.collection)

\* PlanetaryComputerControl.getDownloadUrl, up to the await in signUrl
getDownloadUrl(c, t, item, assetKey) ==
  IF ~HasAsset(item, assetKey)
  THEN [requested |-> FALSE, url |-> Undefined, error |-> <<AssetNotFound(assetKey)>>]
  ELSE signUrl(c, t, AssetOf(item, assetKey).href, item.collection)

\* `Failed to get SAS token for ${collectionId}: ${response.statusText}`
FailureMessage(collectionId, response) ==
  "Failed to get SAS token for " \o collectionId \o ": " \o response.statusText

TokenCollections == {"naip", "io-lulc"}

\* token strings the service issues
Tokens == {"sig=A", "sig=B"}

\* non-success responses of the token service: status as it prints, the
\* status text (empty over HTTP/2) and the body
FailedResponses ==
  { [status |-> "403", statusText |-> "Forbidden", body |-> "collection is private"],
    [status |-> "500", statusText |-> "", body |-> "upstream timeout"] }

\* an item whose asset href already has a query string
ItemNaip ==
  [id |-> "m_3712213_se_10_060", collection |-> "naip", bbox |-> <<-123, 37, -122, 38>>,
   assets |-> << [key |-> "image", asset |-> [href |-> "naip/m_3712213.tif?v=2", type |-> GeoTiff]] >>]

DownloadItems == {ItemLulc, ItemNaip}

\* "rendered_preview" is an asset of neither item
DownloadKeys == {"data", "image", "rendered_preview"}

\* a token is issued with its expiry the buffer away, or up to this much later
MaxExtraLifetime == 2

\* the clock stops here
MaxTime == 2

\* token requests in flight at a time
MaxTokenRequests == 2

InitToken ==
  /\ cache = <<>>
  /\ now = 0
  /\ tokenReqs = <<>>
  /\ tokenLast = [op |-> "new", fresh |-> FALSE, collection |-> "", requested |-> FALSE,
                  token |-> Undefined, expiry |-> 0, again |-> FALSE,
                  error |-> Undefined, url |-> Undefined, arg |-> <<>>]

\* a call of getToken(collectionId)
GetToken ==
  \E collectionId \in TokenCollections :
    LET r == getToken(cache, now, collectionId)
    IN  /\ r.requested => Len(tokenReqs) < MaxTokenRequests
        /\ tokenReqs' = IF r.requested THEN Append(tokenReqs, collectionId) ELSE tokenReqs
        /\ tokenLast' = [op |-> "getToken", fresh |-> TRUE, collection |-> collectionId,
                         requested |-> r.requested, token |-> r.token, expiry |-> 0,
                         again |-> /\ tokenLast.op = "getToken"
                                   /\ tokenLast.collection = collectionId
                                   /\ ~tokenLast.requested
                                   /\ ~r.requested,
                         error |-> Undefined, url |-> Undefined, arg |-> <<>>]
        /\ UNCHANGED <<cache, now, lmVars, searchVars, controlVars, urlVars, utilVars>>

RemoveAt(seq, i) == SubSeq(seq, 1, i - 1) \o SubSeq(seq, i + 1, Len(seq))

\* the service answers a request with a token: getToken caches and returns it
TokenResponseOk ==
  \E i \in 1..Len(tokenReqs), token \in Tokens, extra \in 0..MaxExtraLifetime :
    LET expiry == now + BufferMs + extra
    IN  /\ cache' = CacheSet(cache, tokenReqs[i], token, expiry)
        /\ tokenReqs' = RemoveAt(tokenReqs, i)
        /\ tokenLast' = [op |-> "response", fresh |-> TRUE, collection |-> tokenReqs[i],
                         requested |-> FALSE, token |-> <<token>>, expiry |-> expiry,
                         again |-> FALSE,
                  error |-> Undefined, url |-> Undefined, arg |-> <<>>]
        /\ UNCHANGED <<now, lmVars, searchVars, controlVars, urlVars, utilVars>>

\* CacheAfterFailure that drops the entry of the collection
CacheAfterFailureEvicting(c, collectionId) == Without(c, collectionId)

\* the cache when getToken throws for a response that is not ok: the throw
\* comes before this.cache.set, and nothing else touches the cache
CacheAfterFailure(c, collectionId) == c

\* the service answers with a non-success status: getToken throws
TokenResponseFailed ==
  \E i \in 1..Len(tokenReqs), response \in FailedResponses :
    /\ cache' = CacheAfterFailure(cache, tokenReqs[i])
    /\ tokenReqs' = RemoveAt(tokenReqs, i)
    /\ tokenLast' = [op |-> "failed", fresh |-> TRUE, collection |-> tokenReqs[i],
                     requested |-> FALSE, token |-> Undefined, expiry |-> 0, again |-> FALSE,
                     error |-> <<FailureMessage(tokenReqs[i], response)>>,
                     url |-> Undefined, arg |-> <<response.status, response.body>>]
    /\ UNCHANGED <<now, lmVars, searchVars, controlVars, urlVars, utilVars>>

\* the step of a getDownloadUrl call whose synchronous part came to r
DownloadStep(item, assetKey, r) ==
  /\ r.requested => Len(tokenReqs) < MaxTokenRequests
  /\ tokenReqs' = IF r.requested THEN Append(tokenReqs, item.collection) ELSE tokenReqs
  /\ tokenLast' = [op |-> "getDownloadUrl", fresh |-> TRUE, collection |-> item.collection,
                   requested |-> r.requested, token |-> Undefined, expiry |-> 0,
                   again |-> FALSE, error |-> r.error, url |-> r.url,
                   arg |-> <<item.id, assetKey>>]
  /\ UNCHANGED <<cache, now, lmVars, searchVars, controlVars, urlVars, utilVars>>

\* a call of getDownloadUrl(item, assetKey)
GetDownloadUrl ==
  \E item \in DownloadItems, assetKey \in DownloadKeys :
    DownloadStep(item, assetKey, getDownloadUrl(cache, now, item, assetKey))

\* a call of clearToken(collectionId); arg keeps whether the collection had a
\* valid token when it was called
ClearToken ==
  \E collectionId \in TokenCollections :
    /\ cache' = clearToken(cache, collectionId)
    /\ tokenLast' = [op |-> "clearToken", fresh |-> TRUE, collection |-> collectionId,
                     requested |-> FALSE, token |-> Undefined, expiry |-> 0, again |-> FALSE,
                  error |-> Undefined, url |-> Undefined, arg |-> <<hasValidToken(cache, now, collectionId)>>]
    /\ UNCHANGED <<now, tokenReqs, lmVars, searchVars, controlVars, urlVars, utilVars>>

ClearCache ==
  /\ cache' = clearCache(cache)
  /\ tokenLast' = [op |-> "clearCache", fresh |-> TRUE, collection |-> "",
                   requested |-> FALSE, token |-> Undefined, expiry |-> 0, again |-> FALSE,
                  error |-> Undefined, url |-> Undefined, arg |-> <<>>]
  /\ UNCHANGED <<now, tokenReqs, lmVars, searchVars, controlVars, urlVars, utilVars>>

\* a minute passes
Tick ==
  /\ now < MaxTime
  /\ now' = now + 1
  /\ tokenLast' = [tokenLast EXCEPT !.fresh = FALSE]
  /\ UNCHANGED <<cache, tokenReqs, lmVars, searchVars, controlVars, urlVars, utilVars>>

NextToken ==
  \/ GetToken
  \/ TokenResponseOk
  \/ TokenResponseFailed
  \/ GetDownloadUrl
  \/ ClearToken
  \/ ClearCache
  \/ Tick

-----------------------------------------------------------------------------
(* STACClient's searches and PlanetaryComputerControl.search.  A search     *)
(* runs up to its await in one step; the request it sent settles in a later *)
(* step, which runs the rest of the call.  requests holds every search      *)
(* request sent, in order; abortController is the index of the request      *)
(* whose AbortController the client holds, or 0 for null.                   *)

\* Abort that leaves the earlier request running
AbortNothing(reqs, controller, why) == reqs

\* this.abortController?.abort(): the signal of the held controller is aborted
Abort(reqs, controller, why) ==
  IF controller = 0 \/ reqs[controller].aborted # "no" THEN reqs
  ELSE [reqs EXCEPT ![controller].aborted = why]

\* STACClient.search and searchWithContext up to the await: abort, a new
\* controller, and the POST of the params with the new controller's signal
SearchRequest(c, call, owner, params) ==
  LET aborted == Abort(c.requests, c.abortController, "superseded")
      sent == Append(aborted, [call |-> call, owner |-> owner, params |-> params,
                               aborted |-> "no", status |-> "pending"])
  IN  [requests |-> sent, abortController |-> Len(sent)]

\* STACClient.cancelPending
cancelPending(c) ==
  [requests |-> Abort(c.requests, c.abortController, "cancelled"), abortController |-> 0]

Client == [requests |-> requests, abortController |-> abortController]

\* the options' default maxSearchResults
maxSearchResults == 50

CancelledMessage == "Request was cancelled"
ApiErrorMessage == "STAC API error: 500 Internal Server Error - "

\* PlanetaryComputerControl.search up to the await
ControlSearchStart(st, params) ==
  LET searchParams == Spread(Spread(st.searchParams, params), [limit |-> maxSearchResults])
  IN  [st EXCEPT !.searchParams = searchParams, !.searchLoading = TRUE, !.error = Undefined]

\* the try block's code after the await
ControlSearchResolved(st, results) ==
  [st EXCEPT !.searchResults = results, !.activeView = "results"]

\* a catch block that records nothing
ControlSearchRejectedSilent(st, message) == st

\* the catch block
ControlSearchRejected(st, message) ==
  [st EXCEPT !.error = <<message>>]

\* the finally block
ControlSearchFinally(st) ==
  [st EXCEPT !.searchLoading = FALSE]

\* the params a search is called with
SearchParams == { [collections |-> <<"naip">>], [datetime |-> "2024-01-01/2024-12-31"] }

\* how many search requests a run sends
MaxRequests == 3

InFlight == { i \in 1..Len(requests) : requests[i].status = "pending" }

InitSearch ==
  /\ abortController = 0
  /\ requests = <<>>
  /\ state = [activeView |-> "collections", searchParams |-> EmptyObject,
              searchResults |-> <<>>, searchLoading |-> FALSE, error |-> Undefined]
  /\ events = <<>>
  /\ searchLast = [op |-> "new", request |-> 0, rejected |-> Undefined]

ClientBecomes(c) ==
  /\ requests' = c.requests
  /\ abortController' = c.abortController

\* control.search(params) is called
ControlSearch ==
  \E params \in SearchParams :
    /\ Len(requests) < MaxRequests
    /\ state' = ControlSearchStart(state, params)
    /\ events' = <<"search:start", "statechange">>
    /\ ClientBecomes(SearchRequest(Client, "search", "control", state'.searchParams))
    /\ searchLast' = [op |-> "search", request |-> abortController', rejected |-> Undefined]
    /\ UNCHANGED <<lmVars, tokenVars, controlVars, urlVars, utilVars>>

\* stacClient.search(params) is called by other code, as the React hook does
ClientSearch ==
  \E params \in SearchParams :
    /\ Len(requests) < MaxRequests
    /\ ClientBecomes(SearchRequest(Client, "search", "caller", params))
    /\ events' = <<>>
    /\ searchLast' = [op |-> "search", request |-> abortController', rejected |-> Undefined]
    /\ UNCHANGED <<state, lmVars, tokenVars, controlVars, urlVars, utilVars>>

\* stacClient.searchWithContext(params) is called
ClientSearchWithContext ==
  \E params \in SearchParams :
    /\ Len(requests) < MaxRequests
    /\ ClientBecomes(SearchRequest(Client, "searchWithContext", "caller", params))
    /\ events' = <<>>
    /\ searchLast' = [op |-> "search", request |-> abortController', rejected |-> Undefined]
    /\ UNCHANGED <<state, lmVars, tokenVars, controlVars, urlVars, utilVars>>

\* stacClient.cancelPending() is called, as onRemove does
CancelPending ==
  /\ ClientBecomes(cancelPending(Client))
  /\ events' = <<>>
  /\ searchLast' = [op |-> "cancelPending", request |-> abortController, rejected |-> Undefined]
  /\ UNCHANGED <<state, lmVars, tokenVars, controlVars, urlVars, utilVars>>

\* the promise of request i settled: "resolved", "failed" or "cancelled"
Settled(i, outcome) == [requests EXCEPT ![i].status = outcome]

\* the request's response arrives with a success status: search returns its
\* features
SearchResolves ==
  \E i \in InFlight :
    /\ requests[i].aborted = "no"
    /\ requests' = Settled(i, "resolved")
    /\ IF requests[i].owner = "control"
       THEN /\ state' = ControlSearchFinally(ControlSearchResolved(state, <<i>>))
            /\ events' = <<"search:complete", "search", "statechange">>
       ELSE /\ events' = <<>>
            /\ UNCHANGED state
    /\ searchLast' = [op |-> "resolved", request |-> i, rejected |-> Undefined]
    /\ UNCHANGED <<abortController, lmVars, tokenVars, controlVars, urlVars, utilVars>>

\* the request's response arrives with an error status: STACClient.fetch
\* throws
SearchFails ==
  \E i \in InFlight :
    /\ requests[i].aborted = "no"
    /\ requests' = Settled(i, "failed")
    /\ IF requests[i].owner = "control"
       THEN /\ state' = ControlSearchFinally(ControlSearchRejected(state, ApiErrorMessage))
            /\ events' = <<"search:error", "error", "statechange">>
       ELSE /\ events' = <<>>
            /\ UNCHANGED state
    /\ searchLast' = [op |-> "failed", request |-> i, rejected |-> <<ApiErrorMessage>>]
    /\ UNCHANGED <<abortController, lmVars, tokenVars, controlVars, urlVars, utilVars>>

\* the fetch of an aborted request rejects with an AbortError, which
\* STACClient.fetch turns into Error('Request was cancelled')
SearchCancelled ==
  \E i \in InFlight :
    /\ requests[i].aborted # "no"
    /\ requests' = Settled(i, "cancelled")
    /\ IF requests[i].owner = "control"
       THEN /\ state' = ControlSearchFinally(ControlSearchRejected(state, CancelledMessage))
            /\ events' = <<"search:error", "error", "statechange">>
       ELSE /\ events' = <<>>
            /\ UNCHANGED state
    /\ searchLast' = [op |-> requests[i].aborted, request |-> i,
                     rejected |-> <<CancelledMessage>>]
    /\ UNCHANGED <<abortController, lmVars, tokenVars, controlVars, urlVars, utilVars>>

NextSearch ==
  \/ ControlSearch
  \/ ClientSearch
  \/ ClientSearchWithContext
  \/ CancelPending
  \/ SearchResolves
  \/ SearchFails
  \/ SearchCancelled

-----------------------------------------------------------------------------
(* The add operations over generated catalog entries and options: one      *)
(* layer is added to an empty registry, which records the call's options.  *)

AssetKeys == {"visual", "data", "B04", "thumbnail", "Overview_10m"}

\* asset.type: a cloud-optimized GeoTIFF, a PNG, or no type
AssetTypes == { <<GeoTiff>>, <<"image/png">>, Undefined }

AssetEntries ==
  { [key |-> k, asset |-> Spread([href |-> k], OptionalField("type", t))] :
      k \in AssetKeys, t \in AssetTypes }

\* how many assets a generated item has, at most
MaxAssets == 2

\* Object.entries of an asset map: no key occurs twice
AssetMaps ==
  { a \in UNION { [1..n -> AssetEntries] : n \in 0..MaxAssets } :
      \A i, j \in 1..Len(a) : a[i].key = a[j].key => i = j }

\* an item of no collection, of a collection without presets, and of one
\* with presets
ResolveItems ==
  { Spread([id |-> "LC08_L2SP_044034", assets |-> a], c) :
      a \in AssetMaps,
      c \in { EmptyObject, [collection |-> "io-lulc"], [collection |-> "sentinel-2-l2a"] } }

CollectionLulc ==
  [id |-> "io-lulc",
   extent |-> [spatial |-> [bbox |-> << <<-180, -90, 180, 90>> >>]],
   item_assets |-> << [key |-> "thumbnail", asset |-> [href |-> "", type |-> "image/png"]],
                      [key |-> "supercell", asset |-> [href |-> "", type |-> GeoTiff]] >>]

CollectionBare ==
  [id |-> "gap", title |-> "", extent |-> [spatial |-> [bbox |-> <<>>]]]

ResolveCollections == { CollectionNaip, CollectionLulc, CollectionBare }

ResolveOptions ==
  { NoOptions,
    [assets |-> <<"B04">>],
    [renderParams |-> [assets |-> <<"visual">>, rescale |-> "0,255"]],
    [renderParams |-> [colormap_name |-> "viridis"]],
    [renderParams |-> [expression |-> "(B08-B04)/(B08+B04)"]],
    [assets |-> <<"B04">>, renderParams |-> [assets |-> <<"visual">>, rescale |-> "0,255"]] }

ResolveSuffix == "k3f9q2"

ResolveItemLayer ==
  \E item \in ResolveItems, options \in ResolveOptions :
    /\ layers = <<>>
    /\ Becomes(addItemLayer(Manager("none"), item, options, ResolveSuffix))
    /\ addCall' = [op |-> "addItemLayer", options |-> options]
    /\ UNCHANGED updateCalls

ResolveCollectionLayer ==
  \E collection \in ResolveCollections, options \in ResolveOptions :
    /\ layers = <<>>
    /\ Becomes(addCollectionLayer(Manager("none"), collection, options, ResolveSuffix))
    /\ addCall' = [op |-> "addCollectionLayer", options |-> options]
    /\ UNCHANGED updateCalls

ResolveClear ==
  /\ layers # <<>>
  /\ Becomes(removeAllLayers(Manager("none")))
  /\ addCall' = NoCall
  /\ UNCHANGED updateCalls

NextResolve ==
  \/ ResolveItemLayer
  \/ ResolveCollectionLayer
  \/ ResolveClear

-----------------------------------------------------------------------------
(* zoomToLayer on layers of catalog entries with and without bounds *)

\* an item without a bbox
ItemUnbounded ==
  [id |-> "LC08_L2SP_044034", collection |-> "io-lulc",
   assets |-> << [key |-> "data", asset |-> [href |-> "lc08/data.tif", type |-> GeoTiff]] >>]

ZoomItems == { ItemS2, ItemUnbounded }

\* a collection whose first extent box has two numbers
CollectionFlat ==
  [id |-> "flat", extent |-> [spatial |-> [bbox |-> << <<-10, 10>> >>]]]

\* collections with an extent box, with no box and with a short one
ZoomCollections == { CollectionNaip, CollectionBare, CollectionFlat }

ZoomSuffix == "k3f9q2"

ZoomAddsItemLayer ==
  \E item \in ZoomItems :
    /\ Len(layers) < MaxLayers
    /\ Becomes(addItemLayer(Manager("none"), item, NoOptions, ZoomSuffix))
    /\ UNCHANGED <<updateCalls, addCall>>

ZoomAddsCollectionLayer ==
  \E collection \in ZoomCollections :
    /\ Len(layers) < MaxLayers
    /\ Becomes(addCollectionLayer(Manager("none"), collection, NoOptions, ZoomSuffix))
    /\ UNCHANGED <<updateCalls, addCall>>

ZoomToLayer ==
  \E layerId \in LayerIds :
    /\ Becomes(zoomToLayer(Manager("none"), layerId))
    /\ UNCHANGED <<updateCalls, addCall>>

NextZoom ==
  \/ ZoomAddsItemLayer
  \/ ZoomAddsCollectionLayer
  \/ RemoveLayer
  \/ ZoomToLayer

-----------------------------------------------------------------------------
(* PlanetaryComputerControl: the layer operations of the control, and the  *)
(* callbacks of its React wrapper.                                         *)

\* the callbacks the React wrapper's handlers make for an event, given the
\* event's data and the activeLayers of the state the event carries; the
\* wrapper is given every callback
WrapperCallbacks(event, data, active) ==
  CASE event = "statechange" -> << <<"onStateChange", active>> >>
    [] event = "layer:add" ->
         IF Len(active) > 0 THEN << <<"onLayerAdd", active[Len(active)]>> >> ELSE <<>>
    [] event = "layer:remove" -> << <<"onLayerRemove", data>> >>
    [] OTHER -> <<>>

\* PlanetaryComputerControl._emit(event, data) on a control
\* c = [m, layerManager, map, activeLayers, handlers, error, emitted,
\* callbacks]: the manager with its host, the two optional fields, the state's
\* layer list, whether the wrapper's handlers are registered, the error the
\* call threw, the events emitted and the wrapper callbacks made so far
Emit(c, event, data) ==
  [c EXCEPT !.emitted = Append(@, event),
            !.callbacks = IF c.handlers
                          THEN @ \o WrapperCallbacks(event, data, c.activeLayers)
                          ELSE @]

\* throw new Error(message)
ControlThrow(c, message) == [c EXCEPT !.error = <<message>>]

NotAddedMessage == "Control not added to map"

\* the exception of a host call, as it leaves a control operation
HostErrorMessage == "host map error"

\* addItemLayer and addCollectionLayer after the manager's call, which gave
\* the manager m and, unless it threw, the layer
ControlAdded(c, m, layer) ==
  IF m.thrown THEN ControlThrow([c EXCEPT !.m = m], HostErrorMessage)
  ELSE Emit(Emit([c EXCEPT !.m = m, !.activeLayers = Append(@, layer)],
                 "layer:add", Undefined),
            "statechange", Undefined)

\* addItemLayer that does not look at this._layerManager
ControlAddItemLayerUnchecked(c, item, options, suffix) ==
  ControlAdded(c, addItemLayer(c.m, item, options, suffix),
               ItemLayerRecord(item, options, suffix))

ControlAddItemLayer(c, item, options, suffix) ==
  IF ~c.layerManager THEN ControlThrow(c, NotAddedMessage)
  ELSE ControlAdded(c, addItemLayer(c.m, item, options, suffix),
                    ItemLayerRecord(item, options, suffix))

ControlAddCollectionLayer(c, collection, options, suffix) ==
  IF ~c.layerManager THEN ControlThrow(c, NotAddedMessage)
  ELSE ControlAdded(c, addCollectionLayer(c.m, collection, options, suffix),
                    CollectionLayerRecord(collection, options, suffix))

\* this._state.activeLayers.filter((l) => l.id !== layerId)
WithoutLayer(active, layerId) ==
  LET Other(l) == l.id # layerId IN Filter(active, Other)

\* removeLayer after this._layerManager?.removeLayer(layerId), which gave m
ControlRemoved(c, m, layerId) ==
  IF m.thrown THEN ControlThrow([c EXCEPT !.m = m], HostErrorMessage)
  ELSE Emit(Emit([c EXCEPT !.m = m, !.activeLayers = WithoutLayer(@, layerId)],
                 "layer:remove", Undefined),
            "statechange", Undefined)

ControlRemoveLayer(c, layerId) ==
  ControlRemoved(c, IF c.layerManager THEN removeLayer(c.m, layerId) ELSE c.m, layerId)

\* the first entry of the layer list with id layerId becomes
\* { ...entry, ...updates }; findIndex gives -1 when there is none
MergedAt(active, layerId, updates) ==
  [i \in 1..Len(active) |->
     IF active[i].id = layerId /\ \A j \in 1..(i - 1) : active[j].id # layerId
     THEN Spread(active[i], updates) ELSE active[i]]

\* updateLayer after this._layerManager?.updateLayer(layerId, updates), which
\* gave m
ControlUpdated(c, m, layerId, updates) ==
  IF m.thrown THEN ControlThrow([c EXCEPT !.m = m], HostErrorMessage)
  ELSE Emit(Emit([c EXCEPT !.m = m, !.activeLayers = MergedAt(@, layerId, updates)],
                 "layer:update", Undefined),
            "statechange", Undefined)

ControlUpdateLayer(c, layerId, updates) ==
  ControlUpdated(c, IF c.layerManager THEN updateLayer(c.m, layerId, updates) ELSE c.m,
                 layerId, updates)

\* zoomToLayer after this._layerManager?.zoomToLayer(layerId), which gave m
ControlZoomed(c, m) ==
  IF m.thrown THEN ControlThrow([c EXCEPT !.m = m], HostErrorMessage)
  ELSE [c EXCEPT !.m = m]

ControlZoomToLayer(c, layerId) ==
  ControlZoomed(c, IF c.layerManager THEN zoomToLayer(c.m, layerId) ELSE c.m)

\* onAdd(map): this._map = map and a new LayerManager, whose registry is empty
ControlOnAdd(c) ==
  [c EXCEPT !.map = TRUE, !.layerManager = TRUE, !.m.layers = <<>>]

\* onRemove after this._layerManager?.removeAllLayers(), which gave m:
\* this._map = undefined and this._eventHandlers.clear()
ControlRemovedFromMap(c, m) ==
  IF m.thrown THEN ControlThrow([c EXCEPT !.m = m], HostErrorMessage)
  ELSE [c EXCEPT !.m = m, !.map = FALSE, !.handlers = FALSE]

ControlOnRemove(c) ==
  ControlRemovedFromMap(c, IF c.layerManager THEN removeAllLayers(c.m) ELSE c.m)

\* the control with its manager and host
Control ==
  [m |-> Manager("none"), layerManager |-> layerManager, map |-> controlMap,
   activeLayers |-> activeLayers, handlers |-> handlers,
   error |-> Undefined, emitted |-> <<>>, callbacks |-> <<>>]

\* a control operation, called with arg, took the control to c
ControlStep(c, op, arg) ==
  /\ layers' = c.m.layers
  /\ hostSources' = c.m.sources
  /\ hostLayers' = c.m.hlayers
  /\ hostCamera' = c.m.camera
  /\ hostThrew' = (hostThrew \/ c.m.thrown)
  /\ layerManager' = c.layerManager
  /\ controlMap' = c.map
  /\ activeLayers' = c.activeLayers
  /\ handlers' = c.handlers
  /\ controlLast' = [op |-> op, arg |-> arg, error |-> c.error,
                     emitted |-> c.emitted, callbacks |-> c.callbacks]
  /\ UNCHANGED <<addCall, urlVars, utilVars>>

\* a control operation other than updateLayer took the control to c
ControlBecomes(c, op, arg) ==
  /\ ControlStep(c, op, arg)
  /\ UNCHANGED updateCalls

InitControl ==
  /\ layerManager = FALSE
  /\ controlMap = FALSE
  /\ activeLayers = <<>>
  /\ handlers = FALSE
  /\ controlLast = [op |-> "new", arg |-> "", error |-> Undefined,
                    emitted |-> <<>>, callbacks |-> <<>>]

\* the React wrapper's effect: control.on(...) for its callbacks
WrapperRegisters ==
  /\ ~controlMap
  /\ ~handlers
  /\ ControlBecomes([Control EXCEPT !.handlers = TRUE], "on", "")
  /\ UNCHANGED <<tokenVars, searchVars>>

\* map.addControl(control)
ControlAddedToMap ==
  /\ ~controlMap
  /\ ControlBecomes(ControlOnAdd(Control), "onAdd", "")
  /\ UNCHANGED <<tokenVars, searchVars>>

\* map.removeControl(control): onRemove, which also cancels the pending
\* search and clears the token cache
ControlRemovedFromItsMap ==
  /\ controlMap
  /\ ControlBecomes(ControlOnRemove(Control), "onRemove", "")
  /\ ClientBecomes(cancelPending(Client))
  /\ cache' = clearCache(cache)
  /\ UNCHANGED <<now, tokenReqs, tokenLast, state, events, searchLast>>

\* the value of generateId().slice(-6) in the control's add calls
ControlSuffixes == {"k3f9q2"}

ControlAddsItemLayer ==
  \E item \in Items, options \in ItemOptions, suffix \in ControlSuffixes :
    /\ Len(layers) < MaxLayers
    /\ Len(activeLayers) < MaxLayers
    /\ ControlBecomes(ControlAddItemLayer(Control, item, options, suffix),
                      "addItemLayer", ItemLayerId(item, suffix))
    /\ UNCHANGED <<tokenVars, searchVars>>

ControlAddsCollectionLayer ==
  \E collection \in Collections, options \in {NoOptions}, suffix \in ControlSuffixes :
    /\ Len(layers) < MaxLayers
    /\ Len(activeLayers) < MaxLayers
    /\ ControlBecomes(ControlAddCollectionLayer(Control, collection, options, suffix),
                      "addCollectionLayer", CollectionLayerId(collection, suffix))
    /\ UNCHANGED <<tokenVars, searchVars>>

\* the ids the control's operations are called with: those of the registry,
\* those of the layer list, and one that never is registered
ControlLayerIds == LayerIds \cup { activeLayers[i].id : i \in 1..Len(activeLayers) }

ControlRemovesLayer ==
  \E layerId \in ControlLayerIds :
    /\ ControlBecomes(ControlRemoveLayer(Control, layerId), "removeLayer", layerId)
    /\ UNCHANGED <<tokenVars, searchVars>>

\* the updates the panel makes: the visibility checkbox and the opacity
\* slider
ControlUpdates == { [visible |-> FALSE], [opacity |-> 50] }

ControlUpdatesLayer ==
  \E layerId \in ControlLayerIds, updates \in ControlUpdates :
    /\ updateCalls < MaxUpdates
    /\ ControlStep(ControlUpdateLayer(Control, layerId, updates), "updateLayer", layerId)
    /\ updateCalls' = updateCalls + 1
    /\ UNCHANGED <<tokenVars, searchVars>>

ControlZoomsToLayer ==
  \E layerId \in ControlLayerIds :
    /\ ControlBecomes(ControlZoomToLayer(Control, layerId), "zoomToLayer", layerId)
    /\ UNCHANGED <<tokenVars, searchVars>>

NextControl ==
  \/ WrapperRegisters
  \/ ControlAddedToMap
  \/ ControlRemovedFromItsMap
  \/ ControlAddsItemLayer
  \/ ControlAddsCollectionLayer
  \/ ControlRemovesLayer
  \/ ControlUpdatesLayer
  \/ ControlZoomsToLayer

-----------------------------------------------------------------------------
(* Tile URLs of generated parameter bundles *)

\* asset names; two of them have characters that a query string escapes
UrlAssetNames == {"B04", "visual band", "a&assets=b"}

\* the longest assets list of a bundle
MaxUrlAssets == 2

AssetLists == UNION { [1..n -> UrlAssetNames] : n \in 0..MaxUrlAssets }

\* a bundle is put together from one part of each kind; the empty part leaves
\* the fields out
AssetsParts == {EmptyObject} \cup { [assets |-> list] : list \in AssetLists }

ExpressionParts ==
  {EmptyObject, [expression |-> ""], [expression |-> "(B08-B04)/(B08+B04)"]}

OtherParts ==
  {EmptyObject,
   [rescale |-> "0,3000", colormap_name |-> "viridis"],
   [asset_bidx |-> << <<"image", "1,2,3">> >>, nodata |-> 0, return_mask |-> TRUE]}

UrlCollectionIds == {"naip", "my coll&assets=x"}

UrlItemIds == {"S2B.T10SEG"}

InitUrl ==
  urlLast = [op |-> "new", collectionId |-> "", itemId |-> "", params |-> EmptyObject,
             url |-> ""]

\* the caller puts a parameter bundle together
MakeTileParams ==
  \E assets \in AssetsParts, expression \in ExpressionParts, other \in OtherParts :
    /\ urlLast' = [op |-> "params", collectionId |-> "", itemId |-> "",
                   params |-> Spread(Spread(assets, expression), other), url |-> ""]
    /\ UNCHANGED <<lmVars, tokenVars, searchVars, controlVars, utilVars>>

\* a call of getItemTileUrl(collectionId, itemId, params) with the bundle
GetItemTileUrl ==
  \E collectionId \in UrlCollectionIds, itemId \in UrlItemIds :
    /\ urlLast' = [op |-> "getItemTileUrl", collectionId |-> collectionId,
                   itemId |-> itemId, params |-> urlLast.params,
                   url |-> getItemTileUrl(collectionId, itemId, urlLast.params)]
    /\ UNCHANGED <<lmVars, tokenVars, searchVars, controlVars, utilVars>>

\* a call of getCollectionTileUrl(collectionId, params) with the bundle
GetCollectionTileUrl ==
  \E collectionId \in UrlCollectionIds :
    /\ urlLast' = [op |-> "getCollectionTileUrl", collectionId |-> collectionId,
                   itemId |-> "", params |-> urlLast.params,
                   url |-> getCollectionTileUrl(collectionId, urlLast.params)]
    /\ UNCHANGED <<lmVars, tokenVars, searchVars, controlVars, utilVars>>

NextUrl ==
  \/ MakeTileParams
  \/ GetItemTileUrl
  \/ GetCollectionTileUrl

-----------------------------------------------------------------------------
(* The helper functions, called with generated arguments *)

Min(a, b) == IF a <= b THEN a ELSE b

Max(a, b) == IF a >= b THEN a ELSE b

\* clamp with the two limits taken for each other
clampSwapped(value, min, max) == Min(Max(value, max), min)

\* Math.min(Math.max(value, min), max)
clamp(value, min, max) == Min(Max(value, min), max)

\* the arguments of clamp run from -MaxClamp to MaxClamp
MaxClamp == 3

ClampValues == (0 - MaxClamp)..MaxClamp

InitUtil == utilLast = [op |-> "new", args |-> <<>>, result |-> 0]

\* a call of clamp(value, min, max)
Clamp ==
  \E value \in ClampValues, min \in ClampValues, max \in ClampValues :
    /\ utilLast' = [op |-> "clamp", args |-> <<value, min, max>>,
                    result |-> clamp(value, min, max)]
    /\ UNCHANGED <<lmVars, tokenVars, searchVars, controlVars, urlVars>>

NextUtil ==
  \/ Clamp

-----------------------------------------------------------------------------
(* Specifications *)

Init == InitLayers /\ InitToken /\ InitSearch /\ InitControl /\ InitUrl /\ InitUtil

\* the LayerManager on its host map
Spec == Init /\ [][Next]_vars

\* the SAS token cache
SpecToken == Init /\ [][NextToken]_vars

\* the searches of one STACClient and its control
SpecSearch == Init /\ [][NextSearch]_vars

\* single add calls over generated entries and options
SpecResolve == Init /\ [][NextResolve]_vars

\* the layer operations of the control, with and without the React wrapper
SpecControl == Init /\ [][NextControl]_vars

SpecZoom == Init /\ [][NextZoom]_vars

\* tile URLs of generated parameter bundles
SpecUrl == Init /\ [][NextUrl]_vars

\* calls of the helper functions
SpecUtil == Init /\ [][NextUtil]_vars

-----------------------------------------------------------------------------
(* Claims about the LayerManager *)

Range(seq) == { seq[i] : i \in 1..Len(seq) }

\* the number of times call occurs in a log
Count(log, call) == Cardinality({i \in 1..Len(log) : log[i] = call})

Records == { layers[i][2] : i \in 1..Len(layers) }

\* C1: on a host that never threw, every registered record has exactly one
\* host source, with id record.sourceId, and exactly one host layer, with id
\* record.id, and the host holds no source or layer without a record.
C1_RecordsPairedWithHost ==
  ~hostThrew =>
    /\ \A r \in Records : r.sourceId \in DOMAIN hostSources /\ r.id \in DOMAIN hostLayers
    /\ \A sid \in DOMAIN hostSources : Cardinality({r \in Records : r.sourceId = sid}) = 1
    /\ \A lid \in DOMAIN hostLayers : Cardinality({r \in Records : r.id = lid}) = 1

\* the step is one that takes the manager and its host to m
IsStepTo(m) ==
  /\ layers' = m.layers
  /\ hostSources' = m.sources
  /\ hostLayers' = m.hlayers

\* C2: after removeLayer(id) of a registered layer, whatever updateLayer calls
\* came before, the registry has no record for id and the host has neither
\* the layer id nor the source that was created for it.
C2_RemoveLeavesNothing ==
  [][ \A layerId \in RegisteredIds :
        IsStepTo(removeLayer(Manager("none"), layerId))
        => /\ ~MapHas(layers', layerId)
           /\ layerId \notin DOMAIN hostLayers'
           /\ SourceIdOf(layerId) \notin DOMAIN hostSources'
    ]_vars

\* the visibility and opacity of the live layer once updateLayer has applied
\* the updates' visible and opacity to it
VisibilityBeforeRecreation(hl, updates) ==
  IF Has(updates, "visible") THEN (IF updates.visible THEN "visible" ELSE "none")
  ELSE hl.visibility
OpacityBeforeRecreation(hl, updates) ==
  IF Has(updates, "opacity") THEN updates.opacity ELSE hl.opacity

\* C3: an updateLayer on a registered layer with renderParams or assets
\* removes and re-adds the layer's host source exactly once, and the re-added
\* host layer has the visibility and opacity the live layer had just before.
C3_RecreatedOncePreserving ==
  [][ \A layerId \in RegisteredIds, updates \in Updates :
        ( /\ Has(updates, "renderParams") \/ Has(updates, "assets")
          /\ layerId \in DOMAIN hostLayers
          /\ IsStepTo(updateLayer(Manager("none"), layerId, updates)) )
        => LET sid == hostLayers[layerId].source
               hostCalls == updateLayer(Manager("none"), layerId, updates).log
           IN  /\ Count(hostCalls, <<"removeSource", sid>>) = 1
               /\ Count(hostCalls, <<"addSource", sid>>) = 1
               /\ sid \in DOMAIN hostSources'
               /\ layerId \in DOMAIN hostLayers'
               /\ hostLayers'[layerId].source = sid
               /\ hostLayers'[layerId].visibility
                    = VisibilityBeforeRecreation(hostLayers[layerId], updates)
               /\ hostLayers'[layerId].opacity
                    = OpacityBeforeRecreation(hostLayers[layerId], updates)
    ]_vars

IsSourceOrLayerChange(call) ==
  call[1] \in {"addSource", "removeSource", "addLayer", "removeLayer"}

\* C4: an updateLayer whose updates hold only visible and/or opacity adds and
\* removes no host source or layer: every host source, the layer's own
\* included, and every other host layer is as before.
C4_PresentationUpdateKeepsSources ==
  \A layerId \in RegisteredIds, updates \in Updates :
    DOMAIN updates \subseteq {"visible", "opacity"}
    => LET after == updateLayer(Manager("none"), layerId, updates)
       IN  /\ \A call \in Range(after.log) : ~IsSourceOrLayerChange(call)
           /\ after.sources = hostSources
           /\ DOMAIN after.hlayers = DOMAIN hostLayers
           /\ \A l \in DOMAIN hostLayers :
                /\ after.hlayers[l].source = hostLayers[l].source
                /\ l # layerId => after.hlayers[l] = hostLayers[l]

\* updates of visible and of opacity have hidden and dimmed one of two
\* registered layers, and both sources are there
C4_Witness ==
  /\ Len(layers) = 2
  /\ Cardinality(DOMAIN hostSources) = 2
  /\ \E layerId \in RegisteredIds :
       /\ layerId \in DOMAIN hostLayers
       /\ hostLayers[layerId].visibility = "none"
       /\ hostLayers[layerId].opacity = 50
       /\ ~MapGet(layers, layerId).visible
       /\ MapGet(layers, layerId).opacity = 50

-----------------------------------------------------------------------------
(* Claims about the SAS token cache *)

\* the step is a call of getToken
IsGetTokenCall == tokenLast'.op = "getToken" /\ tokenLast'.fresh

\* C5: getToken(c) issues a request to the token service if and only if, at
\* the time of the call, the cache has no entry for c or the entry's expiry
\* minus the current time is at most the buffer; otherwise it returns the
\* cached token and issues no request.
C5_RequestIffAbsentOrExpiring ==
  [][ IsGetTokenCall =>
        LET c == tokenLast'.collection
            due == c \notin DOMAIN cache \/ cache[c].expiry - now <= BufferMs
        IN  /\ tokenLast'.requested <=> due
            /\ due => tokenReqs' = Append(tokenReqs, c)
            /\ ~due => /\ tokenReqs' = tokenReqs
                       /\ tokenLast'.token = <<cache[c].token>> ]_vars

\* a getToken call found an entry whose expiry is exactly the buffer away and
\* requested a new token
C5_Witness ==
  /\ tokenLast.op = "getToken"
  /\ tokenLast.fresh
  /\ tokenLast.requested
  /\ tokenLast.collection \in DOMAIN cache
  /\ cache[tokenLast.collection].expiry - now = BufferMs

\* C6: two getToken(c) calls with no other call in between, both made while
\* the entry for c has expiry minus now above the buffer, return the same
\* token and leave the cache unchanged; the token and expiry fetched once the
\* entry is no longer eligible replace the entry for c, and only that entry.
C6_ReuseThenReplace ==
  [][ /\ ( /\ IsGetTokenCall
           /\ ~tokenLast'.requested
           /\ tokenLast.op = "getToken"
           /\ ~tokenLast.requested
           /\ tokenLast.collection = tokenLast'.collection )
         => /\ tokenLast'.token = tokenLast.token
            /\ cache' = cache
      /\ (IsGetTokenCall /\ ~tokenLast'.requested) => cache' = cache
      /\ (tokenLast'.op = "response" /\ tokenLast'.fresh)
         => LET c == tokenLast'.collection
            IN  /\ c \in DOMAIN cache'
                /\ <<cache'[c].token>> = tokenLast'.token
                /\ cache'[c].expiry = tokenLast'.expiry
                /\ \A d \in TokenCollections \ {c} :
                     /\ d \in DOMAIN cache' <=> d \in DOMAIN cache
                     /\ d \in DOMAIN cache => cache'[d] = cache[d] ]_vars

\* a second getToken call in a row was answered from the cache, from an entry
\* that a response had written after the clock started
C6_Witness ==
  /\ tokenLast.op = "getToken"
  /\ tokenLast.again
  /\ tokenLast.fresh
  /\ tokenLast.token = <<cache[tokenLast.collection].token>>
  /\ cache[tokenLast.collection].expiry > BufferMs + MaxExtraLifetime

-----------------------------------------------------------------------------
(* Claims about searches *)

\* the search requests in flight whose signal is not aborted
Live == { i \in InFlight : requests[i].aborted = "no" }

\* C7: a search or searchWithContext called while an earlier search request
\* of the client is in flight aborts the earlier request, so at most one
\* search request that is not aborted is in flight at any time, and it is the
\* one sent last.
C7_OneLiveSearch ==
  /\ Cardinality(Live) <= 1
  /\ \A i \in Live : i = Len(requests) /\ i = abortController

\* a search was sent while an earlier one was in flight, and a third while
\* the second was: two aborted requests and the newest one are in flight
C7_Witness ==
  /\ Len(requests) = 3
  /\ InFlight = {1, 2, 3}
  /\ requests[1].aborted = "superseded"
  /\ requests[2].aborted = "superseded"
  /\ Live = {3}

\* C8: the rejection of a search that a newer search superseded is not
\* surfaced: the step that delivers it to control.search leaves state.error
\* as it was and emits no search:error and no error event.
C8_SupersededNotSurfaced ==
  [][ ( /\ searchLast'.op = "superseded"
        /\ searchLast'.request \in InFlight
        /\ requests[searchLast'.request].owner = "control"
        /\ requests' = Settled(searchLast'.request, "cancelled") )
      => /\ state'.error = state.error
         /\ \A e \in Range(events') : e \notin {"search:error", "error"}
    ]_vars

-----------------------------------------------------------------------------
(* Claims about the resolution of assets and parameters *)

\* the record of the one registered layer
Added == layers[1][2]

IsAdded == addCall.op # "none" /\ Len(layers) = 1

\* the catalog entry's collection has a registered default preset
PresetOf(layer) ==
  IF layer.type = "item"
  THEN (IF CollectionIdOf(layer.item) = "" THEN Undefined
        ELSE getDefaultPreset(CollectionIdOf(layer.item)))
  ELSE getDefaultPreset(layer.collection.id)

HeuristicOf(layer) ==
  IF layer.type = "item" THEN getDefaultAssets(layer.item)
  ELSE getDefaultCollectionAssets(layer.collection)

\* C9, as stated: the asset list and the bundle come from options.renderParams
\* first, then options.assets, then the default preset, then the heuristic,
\* and no later source overrides a value an earlier one supplied.
C9_StrictPriority ==
  IsAdded =>
    LET o == addCall.options
        preset == PresetOf(Added)
    IN  /\ Has(o, "renderParams")
           => \A k \in DOMAIN o.renderParams : Added.renderParams[k] = o.renderParams[k]
        /\ (Has(o, "renderParams") /\ Has(o.renderParams, "assets"))
           => Added.assets = o.renderParams.assets
        /\ (~Has(o, "renderParams") /\ Has(o, "assets"))
           => Added.assets = o.assets
        /\ (~Has(o, "renderParams") /\ ~Has(o, "assets") /\ Defined(preset))
           => /\ \A k \in DOMAIN preset[1].params :
                   Added.renderParams[k] = preset[1].params[k]
              /\ Has(preset[1].params, "assets") => Added.assets = preset[1].params.assets
        /\ (~Has(o, "renderParams") /\ ~Has(o, "assets") /\ ~Defined(preset))
           => Added.assets = HeuristicOf(Added)

\* C9, amended: the asset list is options.assets when given, else the assets
\* of options.renderParams when given, else those of the collection's default
\* preset, which is consulted only when neither option is given, else the
\* heuristic selection; the bundle is options.renderParams when given, else
\* the consulted preset's parameters, else empty, with its assets set to the
\* resolved asset list.
C9_AssetsThenBundle ==
  IsAdded =>
    LET o == addCall.options
        preset == IF ~Has(o, "renderParams") /\ ~Has(o, "assets")
                  THEN PresetOf(Added) ELSE Undefined
        bundle == IF Has(o, "renderParams") THEN o.renderParams
                  ELSE IF Defined(preset) THEN preset[1].params
                  ELSE EmptyObject
        assets == IF Has(o, "assets") THEN o.assets
                  ELSE IF Has(bundle, "assets") THEN bundle.assets
                  ELSE HeuristicOf(Added)
    IN  /\ Added.assets = assets
        /\ DOMAIN Added.renderParams = DOMAIN bundle \cup {"assets"}
        /\ Added.renderParams.assets = assets
        /\ \A k \in DOMAIN bundle \ {"assets"} : Added.renderParams[k] = bundle[k]

\* an item layer was added with both options.assets and options.renderParams
\* carrying assets: the layer has the former, in its bundle too
C9_Witness ==
  /\ IsAdded
  /\ addCall.op = "addItemLayer"
  /\ Has(addCall.options, "assets")
  /\ Has(addCall.options, "renderParams")
  /\ Added.assets = <<"B04">>
  /\ Added.renderParams = [assets |-> <<"B04">>, rescale |-> "0,255"]

\* the key of the first entry of an asset map that satisfies P, as a list
FirstKey(entries, P(_)) ==
  IF \E i \in 1..Len(entries) : P(entries[i])
  THEN << entries[CHOOSE i \in 1..Len(entries) :
                    P(entries[i]) /\ \A j \in 1..(i - 1) : ~P(entries[j])].key >>
  ELSE <<>>

\* the selection C10 describes
SelectedByRule(entries) ==
  LET keys == { entries[i].key : i \in 1..Len(entries) }
      Typed(e) == \E w \in {"tiff", "geotiff", "cog"} : Includes(TypeOf(e.asset), w)
      Plain(e) == \A w \in {"thumbnail", "overview", "metadata", "tilejson", "rendered_preview"} :
                    ~Includes(toLowerCase(e.key), w)
  IN  IF "visual" \in keys THEN <<"visual">>
      ELSE IF "data" \in keys THEN <<"data">>
      ELSE IF "image" \in keys THEN <<"image">>
      ELSE IF "cog_default" \in keys THEN <<"cog_default">>
      ELSE IF FirstKey(entries, Typed) # <<>> THEN FirstKey(entries, Typed)
      ELSE FirstKey(entries, Plain)

\* C10: addItemLayer without options, for an item whose collection has no
\* default preset, selects the first of visual, data, image, cog_default that
\* is a key of the asset map; else the first asset in map order whose type
\* contains tiff, geotiff or cog; else the first key that contains none of
\* the excluded names, case-insensitively; else nothing.  Assets thumbnail
\* and data, data typed as a GeoTIFF, select data.
C10_HeuristicSelection ==
  ( /\ IsAdded
    /\ addCall.op = "addItemLayer"
    /\ DOMAIN addCall.options = {}
    /\ ~Defined(PresetOf(Added)) )
  => /\ Added.assets = SelectedByRule(Added.item.assets)
     /\ ( /\ { Added.item.assets[i].key : i \in 1..Len(Added.item.assets) }
               = {"thumbnail", "data"}
          /\ \E i \in 1..Len(Added.item.assets) :
               /\ Added.item.assets[i].key = "data"
               /\ Includes(TypeOf(Added.item.assets[i].asset), "geotiff") )
        => Added.assets = <<"data">>

\* an item with a thumbnail and a GeoTIFF named data, of a collection without
\* presets, was added without options and shows data
C10_Witness ==
  /\ IsAdded
  /\ addCall.op = "addItemLayer"
  /\ DOMAIN addCall.options = {}
  /\ CollectionIdOf(Added.item) = "io-lulc"
  /\ Len(Added.item.assets) = 2
  /\ Added.item.assets[1].key = "thumbnail"
  /\ Added.item.assets[2] = [key |-> "data", asset |-> [href |-> "data", type |-> GeoTiff]]
  /\ Added.assets = <<"data">>

-----------------------------------------------------------------------------
(* Claims about layer ids, removal of all layers and unknown ids *)

\* the ids an add operation can give a layer of the catalog entries
PossibleIds ==
  { ItemLayerId(item, suffix) : item \in Items, suffix \in Suffixes }
    \cup { CollectionLayerId(collection, suffix) :
             collection \in Collections, suffix \in Suffixes }

\* the add operation returned a layer with a fresh id and left the earlier
\* records as they were
IsFreshAdd(after, layerId) ==
  /\ ~after.thrown
  /\ layerId \notin RegisteredIds
  /\ Len(after.layers) = Len(layers) + 1
  /\ \A i \in 1..Len(layers) : after.layers[i] = layers[i]

\* C11: whatever layers are registered and whatever suffix the generator
\* returns, an add operation gives its layer an id that no registered layer
\* has, registers it and leaves every earlier record as it was.
C11_AddYieldsFreshId ==
  /\ \A item \in Items, options \in ItemOptions, suffix \in Suffixes :
       IsFreshAdd(addItemLayer(Manager("none"), item, options, suffix),
                  ItemLayerId(item, suffix))
  /\ \A collection \in Collections, options \in CollectionOptions, suffix \in Suffixes :
       IsFreshAdd(addCollectionLayer(Manager("none"), collection, options, suffix),
                  CollectionLayerId(collection, suffix))

\* C12: on a host that never threw, removeAllLayers leaves an empty registry
\* and a host without the layer and the source of any layer that was
\* registered, and it removes each of these layers and sources exactly once.
C12_RemoveAllLeavesNothing ==
  ~hostThrew =>
    /\ removeAllLayers(Manager("none")).layers = <<>>
    /\ \A layerId \in RegisteredIds :
         /\ layerId \notin DOMAIN removeAllLayers(Manager("none")).hlayers
         /\ SourceIdOf(layerId) \notin DOMAIN removeAllLayers(Manager("none")).sources
         /\ Count(removeAllLayers(Manager("none")).log, <<"removeLayer", layerId>>) = 1
         /\ Count(removeAllLayers(Manager("none")).log,
                  <<"removeSource", SourceIdOf(layerId)>>) = 1

\* ids that are not in the registry
UnknownIds == (PossibleIds \cup {"no-such-layer"}) \ RegisteredIds

\* C13: removeLayer, updateLayer and zoomToLayer with an id that is not in
\* the registry leave the registry and the host as they are, make no host
\* call and do not throw.
C13_UnknownIdIsNoOp ==
  \A layerId \in UnknownIds :
    /\ removeLayer(Manager("none"), layerId) = Manager("none")
    /\ zoomToLayer(Manager("none"), layerId) = Manager("none")
    /\ \A updates \in Updates :
         updateLayer(Manager("none"), layerId, updates) = Manager("none")

\* two layers are registered and live on the host, and an id that an add
\* could have given but that is not registered is removed and updated to no
\* effect
C13_Witness ==
  /\ Len(layers) = 2
  /\ Cardinality(DOMAIN hostLayers) = 2
  /\ \E layerId \in UnknownIds \cap PossibleIds :
       /\ removeLayer(Manager("none"), layerId).log = <<>>
       /\ updateLayer(Manager("none"), layerId, [visible |-> FALSE]).layers = layers

-----------------------------------------------------------------------------
(* Claims about the control's layer operations *)

\* the add call threw the precondition error and left the control's layer
\* list, the registry and the host as they are, with no event and no callback
IsRefusedAdd(after) ==
  /\ after.error = <<NotAddedMessage>>
  /\ after.activeLayers = activeLayers
  /\ after.m = Manager("none")
  /\ after.emitted = <<>>
  /\ after.callbacks = <<>>

\* C14: on a control that was never added to a map, addItemLayer and
\* addCollectionLayer throw 'Control not added to map', leave
\* state.activeLayers and the host map unchanged and emit no event.
C14_AddBeforeAttachFails ==
  ~layerManager =>
    /\ \A item \in Items, options \in ItemOptions, suffix \in Suffixes :
         IsRefusedAdd(ControlAddItemLayer(Control, item, options, suffix))
    /\ \A collection \in Collections, options \in CollectionOptions, suffix \in Suffixes :
         IsRefusedAdd(ControlAddCollectionLayer(Control, collection, options, suffix))

\* the wrapper has registered its handlers on a control that is not on a map
\* yet, and addItemLayer was called and threw
C14_Witness ==
  /\ ~layerManager
  /\ handlers
  /\ controlLast.op = "addItemLayer"
  /\ controlLast.error = <<NotAddedMessage>>
  /\ controlLast.emitted = <<>>
  /\ activeLayers = <<>>

\* C20: when the wrapper's handlers are registered, removeLayer(layerId) of
\* a registered layer through the control calls onLayerRemove with layerId.
C20_RemoveCallbackGetsId ==
  (handlers /\ layerManager) =>
    \A layerId \in RegisteredIds :
      <<"onLayerRemove", <<layerId>>>>
        \in Range(ControlRemoveLayer(Control, layerId).callbacks)

-----------------------------------------------------------------------------
(* Claims about download URLs and token invalidation *)

\* the step is a call of getDownloadUrl(item, assetKey)
IsDownloadCall(item, assetKey) ==
  /\ tokenLast'.op = "getDownloadUrl"
  /\ tokenLast'.fresh
  /\ tokenLast'.arg = <<item.id, assetKey>>

\* C15: getDownloadUrl(item, assetKey) with an assetKey that is not a key of
\* item.assets fails with an error, issues no token request and leaves the
\* token cache as it was.
C15_MissingAssetFailsEarly ==
  [][ \A item \in DownloadItems, assetKey \in DownloadKeys :
        (IsDownloadCall(item, assetKey) /\ ~HasAsset(item, assetKey))
          => /\ tokenLast'.error # Undefined
             /\ tokenLast'.url = Undefined
             /\ ~tokenLast'.requested
             /\ tokenReqs' = tokenReqs
             /\ cache' = cache ]_vars

\* getDownloadUrl was called with a key the item lacks while the cache held
\* no token for the item's collection, and it failed
C15_Witness ==
  /\ tokenLast.op = "getDownloadUrl"
  /\ tokenLast.fresh
  /\ tokenLast.arg = <<ItemLulc.id, "rendered_preview">>
  /\ tokenLast.error = <<"Asset 'rendered_preview' not found">>
  /\ ItemLulc.collection \notin DOMAIN cache
  /\ tokenReqs = <<>>

\* C17: when the token service answers getToken with a non-success status,
\* the error getToken fails with carries the response status and the
\* response body text.
C17_FailureCarriesStatusAndBody ==
  (tokenLast.op = "failed" /\ tokenLast.fresh)
    => /\ tokenLast.error # Undefined
       /\ Includes(tokenLast.error[1], tokenLast.arg[1])
       /\ Includes(tokenLast.error[1], tokenLast.arg[2])

\* the step is a call of clearToken or clearCache
IsClearCall(op) == tokenLast'.op = op /\ tokenLast'.fresh

\* the cache entry of collection d is what it was
EntryUnchanged(d) ==
  /\ d \in DOMAIN cache' <=> d \in DOMAIN cache
  /\ d \in DOMAIN cache => cache'[d] = cache[d]

\* C19: after clearToken(c), hasValidToken(c) is false and the next
\* getToken(c) issues a network call, while the cache entry of every other
\* collection is unchanged; after clearCache() the same holds for every
\* collection.
C19_ClearInvalidates ==
  [][ /\ IsClearCall("clearToken")
         => /\ ~hasValidToken(cache', now', tokenLast'.collection)
            /\ getToken(cache', now', tokenLast'.collection).requested
            /\ \A d \in TokenCollections \ {tokenLast'.collection} : EntryUnchanged(d)
      /\ IsClearCall("clearCache")
         => \A c \in TokenCollections :
              /\ ~hasValidToken(cache', now', c)
              /\ getToken(cache', now', c).requested
      /\ ( /\ IsGetTokenCall
           /\ tokenLast.op = "clearToken"
           /\ tokenLast.collection = tokenLast'.collection )
         => tokenLast'.requested
      /\ (IsGetTokenCall /\ tokenLast.op = "clearCache") => tokenLast'.requested ]_vars

\* clearToken(c) was called while c had a valid token, and another
\* collection still has its valid token
C19_Witness ==
  /\ tokenLast.op = "clearToken"
  /\ tokenLast.fresh
  /\ tokenLast.arg = <<TRUE>>
  /\ \E d \in TokenCollections \ {tokenLast.collection} : hasValidToken(cache, now, d)

-----------------------------------------------------------------------------
(* Claims about a failing search *)

\* request i was sent by control.search and nothing has aborted it
IsLiveControlSearch(reqs, i) ==
  /\ i \in 1..Len(reqs)
  /\ reqs[i].owner = "control"
  /\ reqs[i].status = "pending"
  /\ reqs[i].aborted = "no"

\* the step is the failure of the request of a control.search call
IsControlSearchFailure ==
  /\ searchLast'.op = "failed"
  /\ IsLiveControlSearch(requests, searchLast'.request)
  /\ requests' = Settled(searchLast'.request, "failed")

\* C16: when the request of a control.search call fails, state.error is set
\* to the failure message and search:error and error are emitted, in this
\* order, before the call rejects with that error; once it has settled
\* searchLoading is false, and searchResults and activeView are what they
\* were when the call was made: no step changes them while the call is
\* pending, and neither does its failure.
C16_FailedSearchRecorded ==
  [][ /\ IsControlSearchFailure
         => /\ state'.error = searchLast'.rejected
            /\ searchLast'.rejected = <<ApiErrorMessage>>
            /\ SubSeq(events', 1, 2) = <<"search:error", "error">>
            /\ ~state'.searchLoading
            /\ state'.searchResults = state.searchResults
            /\ state'.activeView = state.activeView
      /\ (\E i \in 1..Len(requests) :
            IsLiveControlSearch(requests, i) /\ IsLiveControlSearch(requests', i))
         => /\ state'.searchResults = state.searchResults
            /\ state'.activeView = state.activeView ]_vars

\* a control.search call made while the results of an earlier search were
\* shown has failed
C16_Witness ==
  /\ searchLast.op = "failed"
  /\ requests[searchLast.request].owner = "control"
  /\ state.error = <<ApiErrorMessage>>
  /\ state.searchResults # <<>>
  /\ state.activeView = "results"
  /\ ~state.searchLoading

-----------------------------------------------------------------------------
(* Claims about tile URLs.  The query string is read back the way a server  *)
(* reads application/x-www-form-urlencoded data.                            *)

\* the index of the first ch in s, or 0
IndexOfChar(s, ch) ==
  IF \E i \in 1..Len(s) : CharAt(s, i) = ch
  THEN CHOOSE i \in 1..Len(s) : CharAt(s, i) = ch /\ \A j \in 1..(i - 1) : CharAt(s, j) # ch
  ELSE 0

RECURSIVE SplitOn(_, _)
SplitOn(s, ch) ==
  LET i == IndexOfChar(s, ch)
  IN  IF i = 0 THEN <<s>>
      ELSE <<SubSeq(s, 1, i - 1)>> \o SplitOn(SubSeq(s, i + 1, Len(s)), ch)

\* the characters PercentCode has a code for
PercentChars ==
  {" ", "!", "\"", "#", "$", "%", "&", "'", "(", ")", "*", "+", ",", "/", ":", ";",
   "<", "=", ">", "?", "@", "[", "]", "^", "{", "|", "}", "~"}

RECURSIVE FormDecode(_)
FormDecode(s) ==
  IF Len(s) = 0 THEN ""
  ELSE IF CharAt(s, 1) = "+" THEN " " \o FormDecode(SubSeq(s, 2, Len(s)))
  ELSE IF CharAt(s, 1) = "%" /\ Len(s) >= 3
            /\ \E c \in PercentChars : PercentCode(c) = SubSeq(s, 1, 3)
       THEN (CHOOSE c \in PercentChars : PercentCode(c) = SubSeq(s, 1, 3))
              \o FormDecode(SubSeq(s, 4, Len(s)))
  ELSE CharAt(s, 1) \o FormDecode(SubSeq(s, 2, Len(s)))

\* name=value read back as <<name, value>>
ParsePair(pair) ==
  LET i == IndexOfChar(pair, "=")
  IN  IF i = 0 THEN <<FormDecode(pair), "">>
      ELSE <<FormDecode(SubSeq(pair, 1, i - 1)), FormDecode(SubSeq(pair, i + 1, Len(pair)))>>

\* the <<name, value>> entries of the query string of url, in order
ParseQuery(url) ==
  LET q == IndexOfChar(url, "?")
      pairs == IF q = 0 \/ q = Len(url) THEN <<>>
               ELSE SplitOn(SubSeq(url, q + 1, Len(url)), "&")
  IN  [i \in 1..Len(pairs) |-> ParsePair(pairs[i])]

\* the values of the entries called name, in order
ValuesOf(entries, name) ==
  LET Named(e) == e[1] = name
      named == SelectSeq(entries, Named)
  IN  [i \in 1..Len(named) |-> named[i][2]]

\* the bundle has an assets list with members and no expression (none, or an
\* empty one)
HasAssetsAndNoExpression(params) ==
  /\ Has(params, "assets")
  /\ Len(params.assets) > 0
  /\ Has(params, "expression") => params.expression = ""

\* C18: for every parameter bundle with a non-empty assets list and no
\* expression, the query string of the tile URL built by getItemTileUrl and
\* by getCollectionTileUrl has exactly one assets entry per member of the
\* list, in the order of the list, and no expression key.
C18_AssetsSerializedInOrder ==
  (urlLast.op \in {"getItemTileUrl", "getCollectionTileUrl"}
     /\ HasAssetsAndNoExpression(urlLast.params))
    => /\ ValuesOf(ParseQuery(urlLast.url), "assets") = urlLast.params.assets
       /\ ValuesOf(ParseQuery(urlLast.url), "expression") = <<>>

\* a mosaic URL was built for two assets, one with a space in its name,
\* together with other parameters
C18_Witness ==
  /\ urlLast.op = "getCollectionTileUrl"
  /\ urlLast.params = [assets |-> <<"visual band", "B04">>, rescale |-> "0,3000",
                       colormap_name |-> "viridis"]
  /\ Includes(urlLast.url, "?collection=naip&assets=visual+band&assets=B04&rescale=")

\* an item URL was built for an asset whose name looks like a second entry
C18_WitnessItem ==
  /\ urlLast.op = "getItemTileUrl"
  /\ urlLast.params = [assets |-> <<"a&assets=b">>, expression |-> ""]
  /\ Includes(urlLast.url, "&item=S2B.T10SEG&assets=a%26assets%3Db")

-----------------------------------------------------------------------------
(* Claims about the helper functions *)

\* C21: clamp(value, min, max) with min <= max returns value when
\* min <= value <= max, min when value < min and max when value > max,
\* negative ranges included.
C21_ClampWithinRange ==
  (utilLast.op = "clamp" /\ utilLast.args[2] <= utilLast.args[3])
    => /\ (utilLast.args[2] <= utilLast.args[1] /\ utilLast.args[1] <= utilLast.args[3])
            => utilLast.result = utilLast.args[1]
       /\ utilLast.args[1] < utilLast.args[2] => utilLast.result = utilLast.args[2]
       /\ utilLast.args[1] > utilLast.args[3] => utilLast.result = utilLast.args[3]

\* a value above a range of negative numbers was clamped to the range's
\* upper end
C21_Witness ==
  /\ utilLast.op = "clamp"
  /\ utilLast.args[2] < utilLast.args[3]
  /\ utilLast.args[3] < 0
  /\ utilLast.args[1] = 0
  /\ utilLast.result = utilLast.args[3]

-----------------------------------------------------------------------------
(* Claims about the order of host calls and the presentation fields *)

\* the registered ids whose layer is live on the host
LiveIds == RegisteredIds \cap DOMAIN hostLayers

\* in the host calls of an operation, every removeSource call for the source
\* of the live layer layerId (the source its host layer uses, and the one its
\* record names) comes after a removeLayer call for layerId
LayerLeavesFirst(log, layerId) ==
  \A j \in 1..Len(log) :
    ( /\ log[j][1] = "removeSource"
      /\ log[j][2] \in {hostLayers[layerId].source, MapGet(layers, layerId).sourceId} )
      => \E i \in 1..(j - 1) : log[i] = <<"removeLayer", layerId>>

\* C22: whenever the LayerManager takes a live layer off the map (in
\* removeLayer, in removeAllLayers and in the source recreation of
\* updateLayer), the host's removeLayer call for the layer comes before the
\* removeSource call for its source, and in no state does the host hold a
\* layer whose source is absent.
C22_LayerRemovedBeforeSource ==
  /\ \A l \in DOMAIN hostLayers : hostLayers[l].source \in DOMAIN hostSources
  /\ \A layerId \in LiveIds :
       /\ LayerLeavesFirst(removeLayer(Manager("none"), layerId).log, layerId)
       /\ LayerLeavesFirst(removeAllLayers(Manager("none")).log, layerId)
       /\ \A updates \in Updates :
            LayerLeavesFirst(updateLayer(Manager("none"), layerId, updates).log, layerId)

\* the record registered under key shows what its live host layer shows
ShowsAsHost(key, record) ==
  /\ record.visible <=> hostLayers[key].visibility # "none"
  /\ record.opacity = hostLayers[key].opacity

\* C23: after any sequence of add, update and remove operations, the visible
\* and opacity fields of every registered record are the visibility and the
\* raster-opacity of its live host layer; a freshly added layer is visible
\* with opacity 1.
C23_PresentationInStep ==
  /\ \A i \in 1..Len(layers) :
       layers[i][1] \in DOMAIN hostLayers => ShowsAsHost(layers[i][1], layers[i][2])
  /\ \A item \in Items, options \in ItemOptions, suffix \in Suffixes :
       LET after == addItemLayer(Manager("none"), item, options, suffix)
           layerId == ItemLayerId(item, suffix)
       IN  ~after.thrown
             => /\ MapGet(after.layers, layerId).visible
                /\ MapGet(after.layers, layerId).opacity = OpacityOne
                /\ after.hlayers[layerId].visibility # "none"
                /\ after.hlayers[layerId].opacity = OpacityOne
  /\ \A collection \in Collections, options \in CollectionOptions, suffix \in Suffixes :
       LET after == addCollectionLayer(Manager("none"), collection, options, suffix)
           layerId == CollectionLayerId(collection, suffix)
       IN  ~after.thrown
             => /\ MapGet(after.layers, layerId).visible
                /\ MapGet(after.layers, layerId).opacity = OpacityOne
                /\ after.hlayers[layerId].visibility # "none"
                /\ after.hlayers[layerId].opacity = OpacityOne

\* a layer was hidden and then given new render parameters together with
\* opacity 0: its source was recreated and the live layer is hidden and
\* transparent, as the record says
C23_Witness ==
  \E i \in 1..Len(layers) :
    /\ layers[i][1] \in DOMAIN hostLayers
    /\ ~layers[i][2].visible
    /\ layers[i][2].opacity = 0
    /\ hostLayers[layers[i][1]].visibility = "none"
    /\ hostLayers[layers[i][1]].opacity = 0
    /\ Includes(hostSources[hostLayers[layers[i][1]].source].tiles[1], "rescale=")

-----------------------------------------------------------------------------
(* Claims about the fields of a record *)

\* C24: for every registered layer, after creation and after every
\* updateLayer call, whatever the update carries, record.assets equals
\* record.renderParams.assets.
C24_AssetsMatchBundle ==
  \A r \in Records :
    /\ Has(r.renderParams, "assets")
    /\ r.assets = r.renderParams.assets

\* the record is of one of the two kinds updateLayerSource builds a URL for
HasTileUrl(record) == IsItemLayer(record) \/ IsCollectionLayer(record)

\* C25: for every registered layer, after creation and after every
\* updateLayer call, record.renderParams is the parameter bundle that was
\* serialized into the tile URL of the layer's current host source: the URL
\* built from it is the URL the source has.
C25_BundleIsTheOneInUse ==
  \A i \in 1..Len(layers) :
    (layers[i][1] \in DOMAIN hostLayers /\ HasTileUrl(layers[i][2]))
      => hostSources[hostLayers[layers[i][1]].source].tiles
           = <<NewTileUrl(layers[i][2], layers[i][2].renderParams)>>

\* the origin field of a record named field, as an optional value
OriginOf(record, field) == IF Has(record, field) THEN <<record[field]>> ELSE Undefined

\* C26: an updateLayer call, whatever fields its updates carry, leaves the
\* type of the layer and its origin (item for an item layer, collection for
\* a collection layer) as they were, and so as they were at creation.
C26_KindAndOriginKept ==
  [][ \A layerId \in RegisteredIds, updates \in Updates :
        IsStepTo(updateLayer(Manager("none"), layerId, updates))
        => \/ ~MapHas(layers', layerId)
           \/ /\ MapGet(layers', layerId).type = MapGet(layers, layerId).type
              /\ OriginOf(MapGet(layers', layerId), "item")
                   = OriginOf(MapGet(layers, layerId), "item")
              /\ OriginOf(MapGet(layers', layerId), "collection")
                   = OriginOf(MapGet(layers, layerId), "collection")
    ]_vars

\* C27: for every registry entry, after any sequence of operations, the
\* record's id is the key it is registered under and its sourceId is that id
\* followed by "-source".
C27_IdsDerivedFromKey ==
  \A i \in 1..Len(layers) :
    /\ layers[i][2].id = layers[i][1]
    /\ layers[i][2].sourceId = layers[i][1] \o "-source"

\* the host methods an add operation calls that can be made to throw
AddFailures == {"addSource", "addLayer"}

\* nothing is registered or on the host under layerId
IsUnused(layerId) ==
  /\ layerId \notin RegisteredIds
  /\ layerId \notin DOMAIN hostLayers
  /\ SourceIdOf(layerId) \notin DOMAIN hostSources

\* the add threw and left no record, no layer and no source for layerId
IsRolledBack(after, layerId) ==
  /\ after.thrown
  /\ ~MapHas(after.layers, layerId)
  /\ layerId \notin DOMAIN after.hlayers
  /\ SourceIdOf(layerId) \notin DOMAIN after.sources

\* C28: adding a layer is atomic: when the host's addSource or addLayer
\* throws in addItemLayer or addCollectionLayer, the exception reaches the
\* caller, and afterwards the registry has no record for the attempted id and
\* the host has neither a source nor a layer for it.
C28_AddIsAtomic ==
  \A fail \in AddFailures, suffix \in Suffixes :
    /\ \A item \in Items, options \in ItemOptions :
         IsUnused(ItemLayerId(item, suffix))
           => IsRolledBack(addItemLayer(Manager(fail), item, options, suffix),
                           ItemLayerId(item, suffix))
    /\ \A collection \in Collections, options \in CollectionOptions :
         IsUnused(CollectionLayerId(collection, suffix))
           => IsRolledBack(addCollectionLayer(Manager(fail), collection, options, suffix),
                           CollectionLayerId(collection, suffix))

\* C29: after an updateLayer call that supplies renderParams or assets and
\* no presetName, the record has no presetName.
C29_CustomParamsClearPreset ==
  [][ \A layerId \in RegisteredIds, updates \in Updates :
        ( /\ Has(updates, "renderParams") \/ Has(updates, "assets")
          /\ ~Has(updates, "presetName")
          /\ IsStepTo(updateLayer(Manager("none"), layerId, updates))
          /\ MapHas(layers', layerId) )
        => ~Has(MapGet(layers', layerId), "presetName")
    ]_vars

\* C30: when updateLayer recreates the source of a layer, the new source has
\* the bounds the source had when the layer was added, for an item layer and
\* for a collection layer, one added with a bbox override included.
C30_RecreatedWithSameBounds ==
  [][ \A layerId \in RegisteredIds, updates \in Updates :
        ( /\ Has(updates, "renderParams") \/ Has(updates, "assets")
          /\ layerId \in DOMAIN hostLayers
          /\ hostLayers[layerId].source = SourceIdOf(layerId)
          /\ MapGet(layers, layerId).sourceId = SourceIdOf(layerId)
          /\ HasTileUrl(MapGet(layers, layerId))
          /\ IsStepTo(updateLayer(Manager("none"), layerId, updates)) )
        => /\ SourceIdOf(layerId) \in DOMAIN hostSources'
           /\ hostSources'[SourceIdOf(layerId)].bounds
                = hostSources[SourceIdOf(layerId)].bounds
    ]_vars

-----------------------------------------------------------------------------
(* Claims about the range of the opacity *)

\* opacity values a caller passes to updateLayer, in percent: below 0, the
\* two ends of the range, inside it and above 1
OpacityValues == {0 - 50, 0, 50, 100, 150}

\* 0 <= opacity <= 1
InUnitRange(opacity) == 0 <= opacity /\ opacity <= OpacityOne

\* C31: the opacity of every registered record and the raster-opacity of its
\* host layer lie within [0,1], in every state and after an updateLayer call
\* with any opacity value.
C31_OpacityInUnitRange ==
  /\ \A r \in Records : InUnitRange(r.opacity)
  /\ \A l \in DOMAIN hostLayers : InUnitRange(hostLayers[l].opacity)
  /\ \A layerId \in LiveIds, opacity \in OpacityValues :
       LET after == updateLayer(Manager("none"), layerId, [opacity |-> opacity])
       IN  /\ InUnitRange(MapGet(after.layers, layerId).opacity)
           /\ InUnitRange(after.hlayers[layerId].opacity)

-----------------------------------------------------------------------------
(* Claims about a catalog entry without an eligible asset *)

\* the asset map the heuristic of the layer reads
EntriesOf(layer) ==
  IF layer.type = "item" THEN layer.item.assets ELSE ItemAssetsOf(layer.collection)

\* an empty asset map, or only keys on the exclusion list with types that
\* are not a TIFF's
NoEligibleAsset(entries) ==
  \A i \in 1..Len(entries) :
    /\ \E w \in {"thumbnail", "overview", "metadata", "tilejson", "rendered_preview"} :
         Includes(toLowerCase(entries[i].key), w)
    /\ \A w \in {"tiff", "geotiff", "cog"} : ~Includes(TypeOf(entries[i].asset), w)

\* neither the options nor the default preset consulted in their absence
\* names assets: the selection is the heuristic's
HeuristicDecides(options, layer) ==
  /\ ~Has(options, "assets")
  /\ IF Has(options, "renderParams") THEN ~Has(options.renderParams, "assets")
     ELSE ~(Defined(PresetOf(layer)) /\ Has(PresetOf(layer)[1].params, "assets"))

\* C32: when the heuristic decides and the asset map has no eligible asset
\* (it is empty, or has only excluded keys with non-TIFF types), the layer is
\* added all the same: it is registered with its host source and layer, its
\* asset list and the assets of its stored bundle are empty, and the tile URL
\* of its source has no assets parameter.  addItemLayer and
\* addCollectionLayer of such an entry on an empty registry do not throw.
C32_NoEligibleAssetStillAdds ==
  /\ ( /\ IsAdded
       /\ HeuristicDecides(addCall.options, Added)
       /\ NoEligibleAsset(EntriesOf(Added)) )
     => /\ Added.assets = <<>>
        /\ Has(Added.renderParams, "assets") => Added.renderParams.assets = <<>>
        /\ Added.id \in DOMAIN hostLayers
        /\ Added.sourceId \in DOMAIN hostSources
        /\ ValuesOf(ParseQuery(hostSources[Added.sourceId].tiles[1]), "assets") = <<>>
  /\ layers = <<>>
     => /\ \A item \in ResolveItems, options \in ResolveOptions :
             NoEligibleAsset(item.assets)
               => LET after == addItemLayer(Manager("none"), item, options, ResolveSuffix)
                  IN  ~after.thrown /\ Len(after.layers) = 1
        /\ \A collection \in ResolveCollections, options \in ResolveOptions :
             NoEligibleAsset(ItemAssetsOf(collection))
               => LET after == addCollectionLayer(Manager("none"), collection, options,
                                                  ResolveSuffix)
                  IN  ~after.thrown /\ Len(after.layers) = 1

\* an item of no collection whose one asset is a PNG thumbnail was added
\* without options: it is on the map with no assets in its record or its URL
C32_Witness ==
  /\ IsAdded
  /\ addCall.op = "addItemLayer"
  /\ DOMAIN addCall.options = {}
  /\ ~Has(Added.item, "collection")
  /\ Len(Added.item.assets) = 1
  /\ Added.item.assets[1] = [key |-> "thumbnail",
                             asset |-> [href |-> "thumbnail", type |-> "image/png"]]
  /\ Added.assets = <<>>
  /\ Added.id \in DOMAIN hostLayers
  /\ ~Includes(hostSources[Added.sourceId].tiles[1], "assets")

\* a collection without item_assets and without presets was added with
\* render parameters that name no assets
C32_WitnessCollection ==
  /\ IsAdded
  /\ addCall.op = "addCollectionLayer"
  /\ addCall.options = [renderParams |-> [colormap_name |-> "viridis"]]
  /\ Added.collection = CollectionBare
  /\ Added.renderParams = [colormap_name |-> "viridis", assets |-> <<>>]
  /\ ~Includes(hostSources[Added.sourceId].tiles[1], "assets")

-----------------------------------------------------------------------------
(* Claims about zoomToLayer *)

\* the bounds the record offers: the bbox of its item, or the first box of
\* its collection's extent when that has four numbers or more
AvailableBounds(record) ==
  IF Has(record, "item") /\ Has(record.item, "bbox") THEN <<record.item.bbox>>
  ELSE IF /\ Has(record, "collection")
          /\ Len(record.collection.extent.spatial.bbox) > 0
          /\ Len(record.collection.extent.spatial.bbox[1]) >= 4
       THEN <<SubSeq(record.collection.extent.spatial.bbox[1], 1, 4)>>
  ELSE Undefined

\* the fit-to-bounds requests zoomToLayer is to make for layerId
FitRequestsDue(layerId) ==
  IF layerId \in RegisteredIds /\ Defined(AvailableBounds(MapGet(layers, layerId)))
  THEN 1 ELSE 0

\* C33: zoomToLayer leaves the registry and the host's sources and layers as
\* they are and does not throw; its only host calls are fit-to-bounds
\* requests: exactly one, for the bounds of the layer, when the item's bbox
\* or the first box of the collection's extent with at least four numbers is
\* available, and none otherwise.
C33_ZoomOnlyFits ==
  \A layerId \in LayerIds :
    LET after == zoomToLayer(Manager("none"), layerId)
    IN  /\ after.layers = layers
        /\ after.sources = hostSources
        /\ after.hlayers = hostLayers
        /\ ~after.thrown
        /\ \A i \in 1..Len(after.log) : after.log[i][1] = "fitBounds"
        /\ Len(after.log) = FitRequestsDue(layerId)
        /\ FitRequestsDue(layerId) = 1
             => after.camera = AvailableBounds(MapGet(layers, layerId))

\* a collection layer and an item layer are registered and the host was
\* last asked to fit the first box of the collection's extent
C33_Witness ==
  /\ Len(layers) = 2
  /\ layers[1][2].type = "collection"
  /\ layers[2][2].type = "item"
  /\ Defined(AvailableBounds(layers[1][2]))
  /\ hostCamera = <<layers[1][2].collection.extent.spatial.bbox[1]>>

\* the layers registered have no bounds to offer: an item without a bbox and
\* a collection whose first box has two numbers; the request for the bounds
\* of an earlier layer stands
C33_WitnessNoBounds ==
  /\ Len(layers) = 2
  /\ \A i \in 1..2 : ~Defined(AvailableBounds(layers[i][2]))
  /\ \E i \in 1..2 : Has(layers[i][2], "collection")
                       /\ layers[i][2].collection = CollectionFlat
  /\ \E i \in 1..2 : Has(layers[i][2], "item")
  /\ Defined(hostCamera)
  /\ \A i \in 1..2 : zoomToLayer(Manager("none"), layers[i][1]).log = <<>>

-----------------------------------------------------------------------------
(* Claims about the control's operations on layers *)

\* the control after an operation shows what it showed before: the same
\* layer list, registry and host, no exception, and no callback of a
\* subscriber was made
IsSilentNoOp(after) ==
  /\ after.activeLayers = activeLayers
  /\ after.m.layers = layers
  /\ after.m.sources = hostSources
  /\ after.m.hlayers = hostLayers
  /\ after.error = Undefined
  /\ after.callbacks = <<>>

\* C34: the control's removeLayer, updateLayer and zoomToLayer, called with
\* an id that is not registered, leave state.activeLayers and the host map as
\* they are and deliver no layer:remove, layer:update or statechange event
\* to the subscribers.
C34_UnknownIdSilentAtControl ==
  \A layerId \in ControlLayerIds \ RegisteredIds :
    /\ IsSilentNoOp(ControlRemoveLayer(Control, layerId))
    /\ IsSilentNoOp(ControlZoomToLayer(Control, layerId))
    /\ \A updates \in ControlUpdates :
         IsSilentNoOp(ControlUpdateLayer(Control, layerId, updates))

-----------------------------------------------------------------------------
(* Claims about overlapping searches of the control *)

\* the last two requests are of control.search calls, the later made while
\* the earlier was pending (which it superseded); the earlier was rejected as
\* cancelled, the later has succeeded, and no request is pending
IsOverlapSettled(reqs) ==
  /\ Len(reqs) >= 2
  /\ reqs[Len(reqs) - 1].owner = "control"
  /\ reqs[Len(reqs)].owner = "control"
  /\ reqs[Len(reqs) - 1].aborted = "superseded"
  /\ reqs[Len(reqs) - 1].status = "cancelled"
  /\ reqs[Len(reqs)].status = "resolved"
  /\ \A i \in 1..Len(reqs) : reqs[i].status # "pending"

\* C35: when a control.search call is made while an earlier one is pending
\* and the later call succeeds, then once both have settled the state holds
\* the results of the later call, searchLoading is false and error is null.
C35_OverlappingSearchesSettle ==
  IsOverlapSettled(requests)
    => /\ state.searchResults = <<Len(requests)>>
       /\ ~state.searchLoading
       /\ state.error = Undefined

\* C37: state.searchLoading is true in every state in which the request of
\* some control.search call is pending, a newer search that superseded an
\* earlier one included.
C37_LoadingWhileSearchPending ==
  (\E i \in InFlight : requests[i].owner = "control") => state.searchLoading

-----------------------------------------------------------------------------
(* Claims about a failed token request *)

\* the step is the failure of a token request of getToken
IsTokenFailure ==
  /\ tokenLast'.op = "failed"
  /\ tokenLast'.fresh
  /\ Len(tokenReqs') = Len(tokenReqs) - 1

\* C38: when the token request of getToken(c) fails, the cache is as it was:
\* no entry is added for c, an entry of c that is close to its expiry is
\* neither removed nor replaced, and the entries of the other collections
\* are untouched.
C38_FailedRequestKeepsCache ==
  [][ IsTokenFailure
        => /\ DOMAIN cache' = DOMAIN cache
           /\ \A d \in DOMAIN cache : cache'[d] = cache[d] ]_vars

\* the token request made for a collection whose cached token was close to
\* its expiry has failed: the cache holds that token still, beside the valid
\* token of another collection
C38_Witness ==
  /\ tokenLast.op = "failed"
  /\ tokenLast.fresh
  /\ tokenLast.collection \in DOMAIN cache
  /\ ~hasValidToken(cache, now, tokenLast.collection)
  /\ \E d \in DOMAIN cache \ {tokenLast.collection} : hasValidToken(cache, now, d)

-----------------------------------------------------------------------------
(* Claims about a band expression *)

\* the options carry render parameters with an expression and name no assets
HasExpressionAndNoAssets(options) ==
  /\ Has(options, "renderParams")
  /\ Has(options.renderParams, "expression")
  /\ options.renderParams.expression # ""
  /\ ~Has(options.renderParams, "assets")
  /\ ~Has(options, "assets")

\* C39: when addItemLayer is given renderParams with an expression and no
\* assets, the tile URL of the source registered with the host has the
\* expression and no assets parameter.
C39_ExpressionWithoutAssets ==
  ( /\ IsAdded
    /\ addCall.op = "addItemLayer"
    /\ HasExpressionAndNoAssets(addCall.options)
    /\ Added.sourceId \in DOMAIN hostSources )
  => /\ ValuesOf(ParseQuery(hostSources[Added.sourceId].tiles[1]), "expression")
          = <<addCall.options.renderParams.expression>>
     /\ ValuesOf(ParseQuery(hostSources[Added.sourceId].tiles[1]), "assets") = <<>>

-----------------------------------------------------------------------------
(* Claims about the control's layer list and its detachment *)

\* C36: after any sequence of the control's addItemLayer,
\* addCollectionLayer, updateLayer, removeLayer and onRemove,
\* state.activeLayers lists exactly the layers registered in the
\* LayerManager: one entry per registered layer, in the order of addition,
\* with the layer's id, visible and opacity.
C36_LayerListMatchesRegistry ==
  /\ Len(activeLayers) = Len(layers)
  /\ \A i \in 1..Len(activeLayers) :
       i <= Len(layers)
         => /\ activeLayers[i].id = layers[i][1]
            /\ activeLayers[i].visible = layers[i][2].visible
            /\ activeLayers[i].opacity = layers[i][2].opacity

\* the control was on a map and onRemove has detached it
IsDetached == layerManager /\ ~controlMap

\* C40: after onRemove has detached the control, addItemLayer and
\* addCollectionLayer fail as they do before attachment: they throw 'Control
\* not added to map' and add no source and no layer to the map, no entry to
\* state.activeLayers, and emit no event.
C40_AddAfterDetachFails ==
  IsDetached =>
    /\ \A item \in Items, options \in ItemOptions, suffix \in ControlSuffixes :
         IsRefusedAdd(ControlAddItemLayer(Control, item, options, suffix))
    /\ \A collection \in Collections, options \in CollectionOptions,
          suffix \in ControlSuffixes :
         IsRefusedAdd(ControlAddCollectionLayer(Control, collection, options, suffix))

====
